---- MODULE Spec2Model ----
(***************************************************************************)
(* A model of ethereum-trading-mcp: the token registry                     *)
(* (src/src/services/token_registry.rs), the swap router                   *)
(* (src/src/services/swap.rs), price discovery                             *)
(* (src/src/services/price.rs), the unit conversions                       *)
(* (src/src/types/token.rs) and the swap_tokens tool                       *)
(* (src/src/mcp/server.rs).                                                *)
(*                                                                         *)
(* Seven specifications share the module:                                  *)
(*   Spec           concurrent lookups on one TokenRegistry                *)
(*   LiveSpec       the same under fair scheduling                         *)
(*   SwapSpec       one activation of SwapService::simulate_swap           *)
(*   ReferenceSpec  calculate_reference_amount applied to bounded inputs   *)
(*   PriceSpec      one activation of PriceService::get_price              *)
(*   UnitsSpec      format_units and parse_units applied to bounded inputs *)
(*   ToolSpec       one activation of EthereumTradingServer::swap_tokens   *)
(***************************************************************************)
EXTENDS Integers, Sequences, FiniteSets, TLC

VARIABLES
    chain_id,   \* TokenRegistry.chain_id
    cache,      \* TokenRegistry.cache: CacheState {by_symbol, by_address, last_updated}
    permits,    \* TokenRegistry.refresh_semaphore: available permits
    now,        \* the monotonic clock Instant::now() reads
    tasks,      \* the concurrent callers of the registry, each with its position
    swap,       \* the activation of simulate_swap, or of calculate_reference_amount
    price,      \* the activation of get_price
    units,      \* an application of format_units / parse_units
    tool        \* the activation of swap_tokens

vars == <<chain_id, cache, permits, now, tasks, swap, price, units, tool>>

registryVars == <<chain_id, cache, permits, now, tasks>>

(***************************************************************************)
(* Bounds of the model.                                                    *)
(***************************************************************************)
NumTasks == 2
MaxTime == 1
MaxListLen == 2
CacheTtl == 0

Tasks == 1..NumTasks

None == [some |-> FALSE]

Some(v) == [some |-> TRUE, value |-> v]

(***************************************************************************)
(* Well-known constants (src/src/ethereum/constants.rs).                   *)
(***************************************************************************)
ETHEREUM_MAINNET_CHAIN_ID == 1

OTHER_CHAIN_ID == 5

WETH_ADDRESS == "C02aaA39"

USDC_ADDRESS == "A0b86991"

WBTC_ADDRESS == "2260FAC5"

UNI_ADDRESS == "1f9840a8"

DAI_ADDRESS == "6B175474"

LINK_ADDRESS == "51491077"

(***************************************************************************)
(* Strings the registry converts.  A symbol is a sequence of characters;   *)
(* str::to_uppercase maps each character.  An address text is a sequence   *)
(* of hex digits after "0x"; Address::from_str decodes the digits without  *)
(* regard to their case and rejects anything else.                         *)
(***************************************************************************)
LowerChars == <<"a", "d", "e", "h", "i", "s", "t", "u", "w", "c", "b", "n">>

UpperChars == <<"A", "D", "E", "H", "I", "S", "T", "U", "W", "C", "B", "N">>

UpperChar(c) ==
    IF \E i \in DOMAIN LowerChars : LowerChars[i] = c
    THEN UpperChars[CHOOSE i \in DOMAIN LowerChars : LowerChars[i] = c]
    ELSE c

to_uppercase(s) == [i \in DOMAIN s |-> UpperChar(s[i])]

\* token.address.parse::<Address>(): Some(address) or None (an error)
ParseAddress(text) ==
    CASE text \in {"0x6B175474", "0x6b175474"} -> Some(DAI_ADDRESS)
      [] text = "0x51491077" -> Some(LINK_ADDRESS)
      [] OTHER -> None

SymWETH == <<"W", "E", "T", "H">>

SymUSDC == <<"U", "S", "D", "C">>

SymWBTC == <<"W", "B", "T", "C">>

SymUNI == <<"U", "N", "I">>

SymDAI == <<"D", "A", "I">>

(***************************************************************************)
(* CacheState                                                              *)
(***************************************************************************)
TokenEntry(address, symbol, name, decimals, chain) ==
    [address |-> address, symbol |-> symbol, name |-> name,
     decimals |-> decimals, chain_id |-> chain]

CacheStateNew ==
    [by_symbol |-> <<>>, by_address |-> <<>>, last_updated |-> None]

\* HashMap::insert: the value under an existing key is replaced
MapInsert(map, key, value) ==
    [k \in (DOMAIN map) \cup {key} |-> IF k = key THEN value ELSE map[k]]

MapGet(map, key) == IF key \in DOMAIN map THEN Some(map[key]) ELSE None

is_expired(c, ttl, t) ==
    IF c.last_updated.some THEN t - c.last_updated.value > ttl ELSE TRUE

CacheInsert(c, entry) ==
    [c EXCEPT
        !.by_symbol = MapInsert(@, <<entry.chain_id, to_uppercase(entry.symbol)>>, entry),
        !.by_address = MapInsert(@, <<entry.chain_id, entry.address>>, entry)]

FallbackTokens ==
    << TokenEntry(WETH_ADDRESS, SymWETH, "Wrapped Ether", 18, ETHEREUM_MAINNET_CHAIN_ID),
       TokenEntry(USDC_ADDRESS, SymUSDC, "USD Coin", 6, ETHEREUM_MAINNET_CHAIN_ID),
       TokenEntry(WBTC_ADDRESS, SymWBTC, "Wrapped BTC", 8, ETHEREUM_MAINNET_CHAIN_ID),
       TokenEntry(UNI_ADDRESS, SymUNI, "Uniswap", 18, ETHEREUM_MAINNET_CHAIN_ID) >>

RECURSIVE InsertAll(_, _)
InsertAll(c, entries) ==
    IF entries = <<>> THEN c
    ELSE InsertAll(CacheInsert(c, Head(entries)), Tail(entries))

populate_fallback_tokens(c) == InsertAll(c, FallbackTokens)

\* a construction that forgets the fallback seed
with_options_no_seed(chain) == CacheStateNew

\* TokenRegistry::with_options: the cache after construction
with_options(chain) ==
    IF chain = ETHEREUM_MAINNET_CHAIN_ID
    THEN populate_fallback_tokens(CacheStateNew)
    ELSE CacheStateNew

(***************************************************************************)
(* The remote token list: what a fetch may return.                         *)
(***************************************************************************)
TokenListToken(chain, text, symbol, name, decimals) ==
    [chain_id |-> chain, address |-> text, symbol |-> symbol, name |-> name,
     decimals |-> decimals]

RemoteTokens ==
    { TokenListToken(1, "0x6B175474", SymDAI, "Dai Stablecoin", 18),
      \* the address of another token (its text in another case), another symbol
      TokenListToken(1, "0x6b175474", <<"S", "a", "i">>, "Sai Stablecoin", 18),
      \* the symbol of a seeded token, in another case, at another address
      TokenListToken(1, "0x51491077", <<"w", "e", "t", "h">>, "Wrapped Ether (bridged)", 8),
      \* a token of another chain
      TokenListToken(5, "0x6B175474", SymDAI, "Goerli Dai", 18),
      \* a malformed address
      TokenListToken(1, "not-an-address", <<"B", "A", "D">>, "Broken", 18) }

RECURSIVE SeqsUpTo(_, _)
SeqsUpTo(S, n) ==
    IF n = 0 THEN {<<>>}
    ELSE LET shorter == SeqsUpTo(S, n - 1)
         IN shorter \cup {Append(s, x) : s \in shorter, x \in S}

RemoteLists == SeqsUpTo(RemoteTokens, MaxListLen)

\* one iteration of the loop of TokenRegistry::refresh
RefreshStep(c, chain, token) ==
    IF token.chain_id # chain THEN c
    ELSE LET address == ParseAddress(token.address)
         IN IF ~address.some THEN c
            ELSE LET entry == TokenEntry(address.value, token.symbol, token.name,
                                         token.decimals, token.chain_id)
                 IN [c EXCEPT
                        !.by_symbol =
                            MapInsert(@, <<token.chain_id, to_uppercase(token.symbol)>>, entry),
                        !.by_address =
                            MapInsert(@, <<token.chain_id, address.value>>, entry)]

RECURSIVE RefreshLoop(_, _, _)
RefreshLoop(c, chain, tokens) ==
    IF tokens = <<>> THEN c
    ELSE RefreshLoop(RefreshStep(c, chain, Head(tokens)), chain, Tail(tokens))

\* a refresh that replaces the cache by the fetched list
RefreshReplace(c, chain, tokens, t) ==
    [RefreshLoop(CacheStateNew, chain, tokens) EXCEPT !.last_updated = Some(t)]

\* TokenRegistry::refresh after a successful fetch: the write-locked section
RefreshApply(c, chain, tokens, t) ==
    [RefreshLoop(c, chain, tokens) EXCEPT !.last_updated = Some(t)]

(***************************************************************************)
(* Callers of the registry.  Each task runs one operation at a time:       *)
(*   idle -> ef_check -> [ef_acquire -> ef_recheck -> [ef_fetch]] ->       *)
(*   lookup -> [forced_fetch -> [retry]] -> done -> idle                   *)
(* A read-locked or write-locked section holds no await and is one step.   *)
(* A task records what its current call did: stale (the first staleness    *)
(* check), ef (how ensure_fresh ended), lookups, forced (forced refreshes  *)
(* started), forcedOk, and refreshed: the time at which another caller's   *)
(* refresh inside ensure_fresh succeeded while this one waited at the gate.*)
(***************************************************************************)
Ops == {"resolve_symbol", "lookup_address", "list_tokens"}

LookupSymbols == { <<"w", "e", "t", "h">>, <<"U", "s", "d", "c">>, SymDAI }

LookupAddresses == { WETH_ADDRESS, USDC_ADDRESS, DAI_ADDRESS }

ArgsOf(op) ==
    CASE op = "resolve_symbol" -> LookupSymbols
      [] op = "lookup_address" -> LookupAddresses
      [] OTHER -> {"-"}

IdleTask ==
    [pc |-> "idle", op |-> "-", arg |-> "-", res |-> None,
     stale |-> FALSE, ef |-> "-", lookups |-> 0, forced |-> 0, forcedOk |-> FALSE,
     refreshed |-> None]

\* the fetches in flight: requests sent whose response has not been handled
InFlight == {t \in Tasks : tasks[t].pc \in {"ef_fetch", "forced_fetch"}}

\* the holders of the refresh permit
GateHolders == {t \in Tasks : tasks[t].pc \in {"ef_recheck", "ef_fetch"}}

\* the key a lookup uses
LookupKey(chain, op, arg) ==
    IF op = "resolve_symbol" THEN <<chain, to_uppercase(arg)>> ELSE <<chain, arg>>

\* the index a lookup reads
LookupIndex(c, op) == IF op = "resolve_symbol" THEN c.by_symbol ELSE c.by_address

CacheLookup(c, chain, op, arg) == MapGet(LookupIndex(c, op), LookupKey(chain, op, arg))

\* list_tokens: by_symbol.values().filter(|t| t.chain_id == self.chain_id)
ListTokens(c, chain) ==
    {c.by_symbol[k] : k \in {j \in DOMAIN c.by_symbol : c.by_symbol[j].chain_id = chain}}

RegistryInit ==
    /\ chain_id \in {ETHEREUM_MAINNET_CHAIN_ID, OTHER_CHAIN_ID}
    /\ cache = with_options(chain_id)
    /\ permits = 1
    /\ now = 0
    /\ tasks = [t \in Tasks |-> IdleTask]

\* a caller enters resolve_symbol, lookup_address or list_tokens
Call(t, op, arg) ==
    /\ tasks[t].pc = "idle"
    /\ tasks' = [tasks EXCEPT ![t] = [IdleTask EXCEPT !.pc = "ef_check", !.op = op, !.arg = arg]]
    /\ UNCHANGED <<chain_id, cache, permits, now, swap, price, units, tool>>

\* ensure_fresh: the first staleness check, under the read lock
EnsureFreshCheck(t) ==
    /\ tasks[t].pc = "ef_check"
    /\ LET needs_refresh == is_expired(cache, CacheTtl, now)
       IN tasks' = [tasks EXCEPT ![t].stale = needs_refresh,
                                 ![t].ef = IF needs_refresh THEN "-" ELSE "fresh",
                                 ![t].pc = IF needs_refresh THEN "ef_acquire" ELSE "lookup"]
    /\ UNCHANGED <<chain_id, cache, permits, now, swap, price, units, tool>>

\* ensure_fresh: refresh_semaphore.acquire()
EnsureFreshAcquire(t) ==
    /\ tasks[t].pc = "ef_acquire"
    /\ permits > 0
    /\ permits' = permits - 1
    /\ tasks' = [tasks EXCEPT ![t].pc = "ef_recheck"]
    /\ UNCHANGED <<chain_id, cache, now, swap, price, units, tool>>

\* an ensure_fresh that refreshes once it holds the permit, without a
\* second check
EnsureFreshNoRecheck(t) ==
    /\ tasks[t].pc = "ef_recheck"
    /\ tasks' = [tasks EXCEPT ![t].pc = "ef_fetch"]
    /\ permits' = permits
    /\ UNCHANGED <<chain_id, cache, now, swap, price, units, tool>>

\* ensure_fresh: the second check; a refresh starts, or the permit is dropped
EnsureFreshRecheck(t) ==
    /\ tasks[t].pc = "ef_recheck"
    /\ LET still_needs_refresh == is_expired(cache, CacheTtl, now)
       IN IF still_needs_refresh
          THEN /\ tasks' = [tasks EXCEPT ![t].pc = "ef_fetch"]
               /\ permits' = permits
          ELSE /\ tasks' = [tasks EXCEPT ![t].pc = "lookup", ![t].ef = "skipped"]
               /\ permits' = permits + 1
    /\ UNCHANGED <<chain_id, cache, now, swap, price, units, tool>>

\* a failed refresh inside ensure_fresh that keeps the permit
EnsureFreshRefreshErrKeepsPermit(t) ==
    /\ tasks[t].pc = "ef_fetch"
    /\ tasks' = [tasks EXCEPT ![t].pc = "lookup", ![t].ef = "err"]
    /\ UNCHANGED <<chain_id, cache, permits, now, swap, price, units, tool>>

\* a failed refresh that stamps the cache as updated
EnsureFreshRefreshErrStamps(t) ==
    /\ tasks[t].pc = "ef_fetch"
    /\ tasks' = [tasks EXCEPT ![t].pc = "lookup", ![t].ef = "err"]
    /\ permits' = permits + 1
    /\ cache' = [cache EXCEPT !.last_updated = Some(now)]
    /\ UNCHANGED <<chain_id, now, swap, price, units, tool>>

\* refresh inside ensure_fresh fails (transport, HTTP status or parse error):
\* the error propagates through `?`, the permit is dropped, the caller logs it
EnsureFreshRefreshErr(t) ==
    /\ tasks[t].pc = "ef_fetch"
    /\ tasks' = [tasks EXCEPT ![t].pc = "lookup", ![t].ef = "err"]
    /\ permits' = permits + 1
    /\ UNCHANGED <<chain_id, cache, now, swap, price, units, tool>>

\* refresh inside ensure_fresh succeeds with a token list
EnsureFreshRefreshOk(t, tokens) ==
    /\ tasks[t].pc = "ef_fetch"
    /\ cache' = RefreshApply(cache, chain_id, tokens, now)
    /\ tasks' = [u \in Tasks |->
                   IF u = t THEN [tasks[t] EXCEPT !.pc = "lookup", !.ef = "ok"]
                   ELSE IF tasks[u].pc = "ef_acquire"
                   THEN [tasks[u] EXCEPT !.refreshed = Some(now)]
                   ELSE tasks[u]]
    /\ permits' = permits + 1
    /\ UNCHANGED <<chain_id, now, swap, price, units, tool>>

\* a lookup that gives up on a miss
AfterMissGiveUp == "done"

\* where a lookup that misses goes next
AfterMiss == "forced_fetch"

\* the first lookup under the read lock; list_tokens returns here
Lookup(t) ==
    /\ tasks[t].pc = "lookup"
    /\ LET me == tasks[t]
           found == CacheLookup(cache, chain_id, me.op, me.arg)
       IN IF me.op = "list_tokens"
          THEN tasks' = [tasks EXCEPT ![t].pc = "done",
                                      ![t].res = Some(ListTokens(cache, chain_id))]
          ELSE IF found.some
          THEN tasks' = [tasks EXCEPT ![t].pc = "done", ![t].res = found,
                                      ![t].lookups = @ + 1]
          ELSE tasks' = [tasks EXCEPT ![t].pc = AfterMiss, ![t].lookups = @ + 1,
                                      ![t].forced = IF AfterMiss = "forced_fetch"
                                                    THEN @ + 1 ELSE @]
    /\ UNCHANGED <<chain_id, cache, permits, now, swap, price, units, tool>>

\* the forced refresh fails: warn and return None
ForcedRefreshErr(t) ==
    /\ tasks[t].pc = "forced_fetch"
    /\ tasks' = [tasks EXCEPT ![t].pc = "done", ![t].res = None]
    /\ UNCHANGED <<chain_id, cache, permits, now, swap, price, units, tool>>

\* the forced refresh succeeds with a token list
ForcedRefreshOk(t, tokens) ==
    /\ tasks[t].pc = "forced_fetch"
    /\ cache' = RefreshApply(cache, chain_id, tokens, now)
    /\ tasks' = [tasks EXCEPT ![t].pc = "retry", ![t].forcedOk = TRUE]
    /\ UNCHANGED <<chain_id, permits, now, swap, price, units, tool>>

\* the retry after the forced refresh
Retry(t) ==
    /\ tasks[t].pc = "retry"
    /\ tasks' = [tasks EXCEPT ![t].pc = "done", ![t].lookups = @ + 1,
                              ![t].res = CacheLookup(cache, chain_id, tasks[t].op, tasks[t].arg)]
    /\ UNCHANGED <<chain_id, cache, permits, now, swap, price, units, tool>>

\* the caller takes the result; the task may call again
Return(t) ==
    /\ tasks[t].pc = "done"
    /\ tasks' = [tasks EXCEPT ![t] = IdleTask]
    /\ UNCHANGED <<chain_id, cache, permits, now, swap, price, units, tool>>

\* time passes
Tick ==
    /\ now < MaxTime
    /\ now' = now + 1
    /\ UNCHANGED <<chain_id, cache, permits, tasks, swap, price, units, tool>>

Next ==
    \/ \E t \in Tasks : \E op \in Ops : \E arg \in ArgsOf(op) : Call(t, op, arg)
    \/ \E t \in Tasks : EnsureFreshCheck(t)
    \/ \E t \in Tasks : EnsureFreshAcquire(t)
    \/ \E t \in Tasks : EnsureFreshRecheck(t)
    \/ \E t \in Tasks : EnsureFreshRefreshErr(t)
    \/ \E t \in Tasks : \E tokens \in RemoteLists : EnsureFreshRefreshOk(t, tokens)
    \/ \E t \in Tasks : Lookup(t)
    \/ \E t \in Tasks : ForcedRefreshErr(t)
    \/ \E t \in Tasks : \E tokens \in RemoteLists : ForcedRefreshOk(t, tokens)
    \/ \E t \in Tasks : Retry(t)
    \/ \E t \in Tasks : Return(t)
    \/ Tick

(***************************************************************************)
(* Numbers of the swap router and of price discovery.                      *)
(*                                                                         *)
(* The code works with three widths: U256 (what the chain returns), u128   *)
(* (the working integer) and the 96-bit mantissa of rust_decimal::Decimal. *)
(* The model keeps the three widths and their order, scaled down so that   *)
(* every product stays a 32-bit integer: 20 bits stand for the 128 of     *)
(* u128 and 15 bits for the 96 of the Decimal mantissa.  A Decimal is a    *)
(* mantissa m and a scale e: its value is m / 10^e.                        *)
(***************************************************************************)
U128_MAX == 2^20 - 1

DECIMAL_MAX == 2^15 - 1

Ok(v) == [kind |-> "ok", value |-> v]

Err(e) == [kind |-> "err", err |-> e]

\* the thread panics: no value is returned to the caller
Panic == [kind |-> "panic"]

RECURSIVE Pow10(_)
Pow10(n) == IF n = 0 THEN 1 ELSE 10 * Pow10(n - 1)

Dec(m, e) == [m |-> m, e |-> e]

DecimalZERO == Dec(0, 0)

DecimalONE == Dec(1, 0)

Max(a, b) == IF a >= b THEN a ELSE b

\* Decimal::from(u128) is from_u128(n).unwrap(): it panics above the mantissa
DecimalFrom(n) == IF n <= DECIMAL_MAX THEN Ok(Dec(n, 0)) ELSE Panic

\* p / d rounded to the nearest integer, a tie to the even one
RoundHalfEven(p, d) ==
    LET q == p \div d
        r == p % d
    IN IF 2 * r > d \/ (2 * r = d /\ q % 2 = 1) THEN q + 1 ELSE q

\* Decimal * Decimal: the exact product when its mantissa fits; otherwise the
\* scale is reduced, rounding, by the fewest digits that make it fit; a
\* product too large at scale 0 panics ("Multiplication overflowed")
DecimalMul(a, b) ==
    IF a.m = 0 \/ b.m = 0 THEN Ok(DecimalZERO)
    ELSE LET p == a.m * b.m
             scale == a.e + b.e
             fits == {k \in 0..scale : RoundHalfEven(p, Pow10(k)) <= DECIMAL_MAX}
         IN IF fits = {} THEN Panic
            ELSE LET k == CHOOSE j \in fits : \A i \in fits : j <= i
                 IN Ok(Dec(RoundHalfEven(p, Pow10(k)), scale - k))

\* a - b for a >= b: the scales are aligned to the larger one
DecimalSub(a, b) ==
    LET e == Max(a.e, b.e)
    IN Dec(a.m * Pow10(e - a.e) - b.m * Pow10(e - b.e), e)

\* d / Decimal::from(100): exact, at the smallest scale that holds the quotient
DecimalDivBy100(d) ==
    LET k == CHOOSE j \in 0..2 :
                 /\ (d.m * Pow10(j)) % 100 = 0
                 /\ \A i \in 0..2 : (d.m * Pow10(i)) % 100 = 0 => j <= i
    IN Dec((d.m * Pow10(k)) \div 100, d.e + k)

\* Decimal::trunc followed by to_string
DecimalTrunc(d) == d.m \div Pow10(d.e)

\* SwapService::decimal_to_u128
decimal_to_u128(value) ==
    IF DecimalTrunc(value) <= U128_MAX
    THEN Ok(DecimalTrunc(value))
    ELSE Err("NumericOverflow")

\* Decimal::ONE - params.slippage_tolerance / Decimal::from(100)
slippage_multiplier(slippage_tolerance) ==
    DecimalSub(DecimalONE, DecimalDivBy100(slippage_tolerance))

\* the minimum output of an amount that fits u128:
\* decimal_to_u128(Decimal::from(amount_out_u128) * slippage_multiplier)
min_out(amount_out, slippage_tolerance) ==
    LET from == DecimalFrom(amount_out)
    IN IF from.kind # "ok" THEN Panic
       ELSE LET product == DecimalMul(from.value, slippage_multiplier(slippage_tolerance))
            IN IF product.kind # "ok" THEN Panic ELSE decimal_to_u128(product.value)

(***************************************************************************)
(* Route selection of the swap router.                                     *)
(***************************************************************************)
FEE_LOWEST == 100

FEE_LOW == 500

FEE_MEDIUM == 3000

FEE_HIGH == 10000

ALL_FEES == <<FEE_LOWEST, FEE_LOW, FEE_MEDIUM, FEE_HIGH>>

\* a quote: the call failed, or it returned amountOut (a U256)
QuoteErr == [ok |-> FALSE, amountOut |-> 0]

QuoteOk(n) == [ok |-> TRUE, amountOut |-> n]

\* amounts a pool may quote: zero, two small ones, one that fits u128 but
\* not a Decimal mantissa, one that does not fit u128
QuoteAmounts == {0, 3, 201, DECIMAL_MAX + 1, U128_MAX + 1}

Quotes == {QuoteErr} \cup {QuoteOk(n) : n \in QuoteAmounts}

\* what the chain answers when try_v3_swap probes one fee tier: getPool
\* fails, returns the zero address, or returns a pool that is then quoted
TierProbes ==
    { [pool |-> "rpc_error", quote |-> QuoteErr], [pool |-> "zero", quote |-> QuoteErr] }
    \cup { [pool |-> "exists", quote |-> q] : q \in Quotes }

ProbeSets == [DOMAIN ALL_FEES -> TierProbes]

NoProbes == [i \in DOMAIN ALL_FEES |-> [pool |-> "unprobed", quote |-> QuoteErr]]

\* format!("{:?}", address)
DebugAddress(a) == <<"0x", a>>

SwapRoute(protocol, path, fee_tier) ==
    [protocol |-> protocol, path |-> path, fee_tier |-> fee_tier]

NoRoute == SwapRoute("-", <<>>, None)

\* the transaction a route builds: the router and the minimum output encoded
\* in the calldata (amountOutMinimum for V3, amountOutMin for V2)
TransactionRequest(to, amount_in, amount_out_min, path) ==
    [to |-> to, amountIn |-> amount_in, amountOutMin |-> amount_out_min, path |-> path]

NoTx == TransactionRequest("-", 0, 0, <<>>)

RECURSIVE V3Loop(_, _, _, _)
\* the loop of try_v3_swap over ALL_FEES from index i: an RPC error of
\* getPool leaves the function; a failed quote is skipped
V3Loop(probes, i, best_fee, best_amount_out) ==
    IF i > Len(ALL_FEES)
    THEN Ok([best_fee |-> best_fee, best_amount_out |-> best_amount_out])
    ELSE IF probes[i].pool = "rpc_error" THEN Err("Rpc")
    ELSE IF probes[i].pool = "zero"
    THEN V3Loop(probes, i + 1, best_fee, best_amount_out)
    ELSE IF probes[i].quote.ok /\ probes[i].quote.amountOut > best_amount_out
    THEN V3Loop(probes, i + 1, Some(ALL_FEES[i]), probes[i].quote.amountOut)
    ELSE V3Loop(probes, i + 1, best_fee, best_amount_out)

RECURSIVE V3Probed(_, _)
\* the fee tiers, by their index in ALL_FEES, whose getPool call the loop of
\* try_v3_swap makes from index i on: the loop is left at the first RPC error
V3Probed(probes, i) ==
    IF i > Len(ALL_FEES) THEN {}
    ELSE IF probes[i].pool = "rpc_error" THEN {i}
    ELSE {i} \cup V3Probed(probes, i + 1)

\* the rest of a route builder once it has its quote: the u128 check, the
\* minimum output, the transaction
BuildRoute(params, amount_out, protocol, router, path, fee_tier) ==
    IF amount_out > U128_MAX THEN Err("NumericOverflow")
    ELSE LET m == min_out(amount_out, params.slippage_tolerance)
         IN IF m.kind # "ok" THEN m
            ELSE Ok([route |-> SwapRoute(protocol, [i \in DOMAIN path |-> DebugAddress(path[i])],
                                         fee_tier),
                     amount_out |-> amount_out,
                     tx |-> TransactionRequest(router, params.amount_in, m.value, path)])

\* SwapService::try_v3_swap
try_v3_swap(params, probes) ==
    LET loop == V3Loop(probes, 1, None, 0)
    IN IF loop.kind # "ok" THEN loop
       ELSE IF ~loop.value.best_fee.some THEN Err("PoolNotFound")
       ELSE IF loop.value.best_amount_out = 0 THEN Err("InsufficientLiquidity")
       ELSE BuildRoute(params, loop.value.best_amount_out, "V3", "UNISWAP_V3_ROUTER",
                       <<params.from_token, params.to_token>>, loop.value.best_fee)

\* what the chain answers to try_v2_swap: getPair of the direct pair, of the
\* two legs through WETH when they are asked for, and getAmountsOut
V2Answer(pair, pair_a, pair_b, amounts) ==
    [pair |-> pair, pair_a |-> pair_a, pair_b |-> pair_b, amounts |-> amounts]

V2Answers ==
    { V2Answer("rpc_error", "-", "-", QuoteErr) }
    \cup { V2Answer("exists", "-", "-", q) : q \in Quotes }
    \cup { V2Answer("zero", "rpc_error", "-", QuoteErr) }
    \cup { V2Answer("zero", a, "rpc_error", QuoteErr) : a \in {"zero", "exists"} }
    \cup { V2Answer("zero", a, b, QuoteErr) :
              a \in {"zero", "exists"}, b \in {"zero", "exists"} }
    \cup { V2Answer("zero", "exists", "exists", q) : q \in Quotes }

NoV2Answer == V2Answer("unasked", "-", "-", QuoteErr)

\* the common tail of try_v2_swap and build_v2_multihop_swap
V2Quote(params, amounts, path) ==
    IF ~amounts.ok THEN Err("Rpc")
    ELSE IF amounts.amountOut = 0 THEN Err("InsufficientLiquidity")
    ELSE BuildRoute(params, amounts.amountOut, "V2", "UNISWAP_V2_ROUTER", path, None)

\* SwapService::build_v2_multihop_swap
build_v2_multihop_swap(params, answer) ==
    V2Quote(params, answer.amounts, <<params.from_token, WETH_ADDRESS, params.to_token>>)

\* a try_v2_swap that takes the path through WETH when one leg exists
try_v2_swap_one_leg(params, answer) ==
    IF answer.pair = "rpc_error" THEN Err("Rpc")
    ELSE IF answer.pair = "zero"
    THEN IF answer.pair_a = "rpc_error" \/ answer.pair_b = "rpc_error" THEN Err("Rpc")
         ELSE IF answer.pair_a = "zero" /\ answer.pair_b = "zero" THEN Err("PoolNotFound")
         ELSE V2Quote(params, answer.amounts,
                      <<params.from_token, WETH_ADDRESS, params.to_token>>)
    ELSE V2Quote(params, answer.amounts, <<params.from_token, params.to_token>>)

\* SwapService::try_v2_swap
try_v2_swap(params, answer) ==
    IF answer.pair = "rpc_error" THEN Err("Rpc")
    ELSE IF answer.pair = "zero"
    THEN IF answer.pair_a = "rpc_error" \/ answer.pair_b = "rpc_error" THEN Err("Rpc")
         ELSE IF answer.pair_a = "zero" \/ answer.pair_b = "zero" THEN Err("PoolNotFound")
         ELSE build_v2_multihop_swap(params, answer)
    ELSE V2Quote(params, answer.amounts, <<params.from_token, params.to_token>>)

(***************************************************************************)
(* The dry run, the gas figures and the price impact.                      *)
(***************************************************************************)
\* an error of eth_call: the text of e.to_string() and which of the
\* substrings that simulate_transaction looks for occur in it
CallError(text, has) == [ok |-> FALSE, text |-> text, has |-> has]

CallOk == [ok |-> TRUE, text |-> "", has |-> {}]

CallAnswers ==
    { CallOk,
      CallError("insufficient funds for gas * price + value", {"insufficient"}),
      CallError("execution reverted: UniswapV2Router: INSUFFICIENT_OUTPUT_AMOUNT",
                {"INSUFFICIENT_OUTPUT_AMOUNT", "execution reverted"}),
      CallError("execution reverted: UniswapV2Router: EXPIRED",
                {"EXPIRED", "execution reverted"}),
      CallError("execution reverted: TransferHelper: TRANSFER_FROM_FAILED",
                {"TRANSFER_FROM_FAILED", "execution reverted"}),
      CallError("execution reverted: Too little received", {"execution reverted"}),
      CallError("error sending request", {}),
      CallError("", {}) }

\* format!("{prefix}{text}"): a string is kept as its two parts
Format(prefix, text) == <<prefix, text>>

IsEmptyString(str) == \A i \in DOMAIN str : str[i] = ""

\* SwapService::simulate_transaction: Ok(()) or Err(user_friendly_error)
simulate_transaction(answer) ==
    IF answer.ok THEN Ok("()")
    ELSE IF "insufficient" \in answer.has
    THEN Err(Format("Insufficient token balance or allowance", ""))
    ELSE IF "INSUFFICIENT_OUTPUT_AMOUNT" \in answer.has
    THEN Err(Format("Output amount is less than minimum (slippage exceeded)", ""))
    ELSE IF "EXPIRED" \in answer.has
    THEN Err(Format("Transaction deadline expired", ""))
    ELSE IF "TRANSFER_FROM_FAILED" \in answer.has
    THEN Err(Format("Token transfer failed - check token approval", ""))
    ELSE IF "execution reverted" \in answer.has
    THEN Err(Format("Transaction would revert: ", answer.text))
    ELSE Err(Format("Simulation failed: ", answer.text))

\* a dry-run result that loses the error message
dry_run_outcome_drops_error(sim) ==
    [simulation_success |-> sim.kind = "ok", simulation_error |-> None]

\* simulate_swap: (simulation_success, simulation_error) from the dry run
dry_run_outcome(sim) ==
    IF sim.kind = "ok"
    THEN [simulation_success |-> TRUE, simulation_error |-> None]
    ELSE [simulation_success |-> FALSE, simulation_error |-> Some(sim.err)]

\* gas units in thousands, gas prices in gwei
DEFAULT_GAS_ESTIMATE == 200

DEFAULT_GAS_PRICE == 30

GasEstimates == {None, Some(150)}

GasPrices == {None, Some(20)}

unwrap_or(option, default) == IF option.some THEN option.value ELSE default

Min(a, b) == IF a <= b THEN a ELSE b

\* a reference amount whose floor is 10000 raw units
calculate_reference_amount_floor_10000(amount_in) ==
    LET reference == amount_in \div 1000
        min_reference == 10000
        max_reference == amount_in \div 10
    IN IF reference < min_reference THEN Min(min_reference, amount_in)
       ELSE IF reference > max_reference THEN max_reference
       ELSE reference

\* a reference amount whose floor is not capped by the input
calculate_reference_amount_uncapped_floor(amount_in) ==
    LET reference == amount_in \div 1000
        min_reference == 1000
        max_reference == amount_in \div 10
    IN IF reference < min_reference THEN min_reference
       ELSE IF reference > max_reference THEN max_reference
       ELSE reference

\* SwapService::calculate_reference_amount
calculate_reference_amount(amount_in) ==
    LET reference == amount_in \div 1000
        min_reference == 1000
        max_reference == amount_in \div 10
    IN IF reference < min_reference THEN Min(min_reference, amount_in)
       ELSE IF reference > max_reference THEN max_reference
       ELSE reference

\* what the chain answers to the reference quote of calculate_price_impact:
\* the V3 quoter, or the V2 router for the direct path and for the path
\* through WETH
SpotAnswer(v3, v2_direct, v2_via_weth) ==
    [v3 |-> v3, v2_direct |-> v2_direct, v2_via_weth |-> v2_via_weth]

\* the reference quote: failing, zero, below the execution rate (1), above it
\* (1000), above the Decimal mantissa, above u128
SpotQuotes ==
    {QuoteErr, QuoteOk(0), QuoteOk(1), QuoteOk(1000), QuoteOk(DECIMAL_MAX + 1),
     QuoteOk(U128_MAX + 1)}

SpotAnswers ==
    { SpotAnswer(q, QuoteErr, QuoteErr) : q \in SpotQuotes }
    \cup { SpotAnswer(QuoteErr, q, QuoteErr) : q \in SpotQuotes }
    \cup { SpotAnswer(QuoteErr, QuoteErr, q) : q \in SpotQuotes }

\* SwapService::get_v3_quote
get_v3_quote(answer) == IF answer.v3.ok THEN Ok(answer.v3.amountOut) ELSE Err("Rpc")

\* SwapService::get_v2_quote: the direct path, else the path through WETH
get_v2_quote(answer) ==
    IF answer.v2_direct.ok THEN Ok(answer.v2_direct.amountOut)
    ELSE IF answer.v2_via_weth.ok THEN Ok(answer.v2_via_weth.amountOut)
    ELSE Err("Rpc")

\* the route the reference quote is taken through: for a V3 route the
\* quoter with the fee tier of the route (3000 when it has none), for a V2
\* route the path whose getAmountsOut call get_v2_quote returns; NoRoute
\* when no quote is obtained
reference_quote_route(params, route, answer) ==
    IF route.protocol = "V3"
    THEN IF answer.v3.ok
         THEN SwapRoute("V3", <<DebugAddress(params.from_token),
                                DebugAddress(params.to_token)>>,
                        Some(unwrap_or(route.fee_tier, FEE_MEDIUM)))
         ELSE NoRoute
    ELSE IF answer.v2_direct.ok
    THEN SwapRoute("V2", <<DebugAddress(params.from_token),
                           DebugAddress(params.to_token)>>, None)
    ELSE IF answer.v2_via_weth.ok
    THEN SwapRoute("V2", <<DebugAddress(params.from_token), DebugAddress(WETH_ADDRESS),
                           DebugAddress(params.to_token)>>, None)
    ELSE NoRoute

RECURSIVE GCD(_, _)
GCD(a, b) == IF b = 0 THEN a ELSE GCD(b, a % b)

\* a price impact that stays below zero (by one unit) when the execution rate
\* is the better one
PriceImpactUnclamped(amount_out, amount_in, spot_output, reference) ==
    LET g == GCD(amount_out * reference, spot_output * amount_in)
        n == (amount_out * reference) \div g
        d == (spot_output * amount_in) \div g
    IN IF n > d THEN -1
       ELSE LET whole == ((d - n) * 100) \div d
                rest == ((d - n) * 100) % d
            IN whole * 10000 + RoundHalfEven(rest * 10000, d)

\* (1 - (amount_out / amount_in) / (spot_output / reference)) * 100, not
\* below zero, rounded to 4 decimal places: the result in units of 0.0001
PriceImpactE4(amount_out, amount_in, spot_output, reference) ==
    LET g == GCD(amount_out * reference, spot_output * amount_in)
        n == (amount_out * reference) \div g
        d == (spot_output * amount_in) \div g
    IN IF n >= d THEN 0
       ELSE LET whole == ((d - n) * 100) \div d
                rest == ((d - n) * 100) % d
            IN whole * 10000 + RoundHalfEven(rest * 10000, d)

\* SwapService::calculate_price_impact
calculate_price_impact(params, amount_out, route, answer) ==
    LET reference_amount == calculate_reference_amount(params.amount_in)
        spot_output == IF route.protocol = "V3" THEN get_v3_quote(answer)
                       ELSE get_v2_quote(answer)
    IN IF spot_output.kind # "ok" THEN spot_output
       ELSE IF params.amount_in > U128_MAX \/ amount_out > U128_MAX
               \/ reference_amount > U128_MAX \/ spot_output.value > U128_MAX
       THEN Err("NumericOverflow")
       ELSE IF spot_output.value = 0 \/ params.amount_in = 0 THEN Ok(0)
       ELSE IF amount_out > DECIMAL_MAX \/ params.amount_in > DECIMAL_MAX
               \/ spot_output.value > DECIMAL_MAX \/ reference_amount > DECIMAL_MAX
       THEN Panic
       ELSE Ok(PriceImpactE4(amount_out, params.amount_in, spot_output.value,
                             reference_amount))

(***************************************************************************)
(* format_units (src/src/types/token.rs): a number as decimal text.  A     *)
(* text is kept as its digits before the point and its digits after it;    *)
(* no digits after it means no point.                                      *)
(***************************************************************************)
RECURSIVE ToDigits(_)
\* U256::to_string
ToDigits(n) == IF n < 10 THEN <<n>> ELSE Append(ToDigits(n \div 10), n % 10)

RECURSIVE TrimEndZeros(_)
\* str::trim_end_matches('0')
TrimEndZeros(digits) ==
    IF digits # <<>> /\ digits[Len(digits)] = 0
    THEN TrimEndZeros(SubSeq(digits, 1, Len(digits) - 1))
    ELSE digits

DecimalText(integer, decimal) == [integer |-> integer, decimal |-> decimal]

format_units(value, decimals) ==
    LET value_str == ToDigits(value)
        len == Len(value_str)
    IN IF value = 0 THEN DecimalText(<<0>>, <<>>)
       ELSE IF decimals = 0 THEN DecimalText(value_str, <<>>)
       ELSE IF len <= decimals
       THEN LET decimal_part == TrimEndZeros(value_str)
            IN IF decimal_part = <<>> THEN DecimalText(<<0>>, <<>>)
               ELSE DecimalText(<<0>>, [i \in 1..(decimals - len) |-> 0] \o decimal_part)
       ELSE DecimalText(SubSeq(value_str, 1, len - decimals),
                        TrimEndZeros(SubSeq(value_str, len - decimals + 1, len)))

(***************************************************************************)
(* parse_units (src/src/types/token.rs) on text: a sequence of characters. *)
(***************************************************************************)
\* a scaled stand-in for U256::MAX (see U128_MAX): 10 digits at most, and
\* 10^d wraps from d = 10 on, as 10^d wraps U256 from d = 78 on
U256_MAX == 2^30 - 1

DigitChars == <<"0", "1", "2", "3", "4", "5", "6", "7", "8", "9">>

\* the text of a digit sequence
ToChars(digits) == [i \in DOMAIN digits |-> DigitChars[digits[i] + 1]]

\* the String format_units returns: integer, or format!("{}.{}", integer, decimal)
to_string(text) ==
    ToChars(text.integer)
        \o (IF text.decimal = <<>> THEN <<>> ELSE <<".">> \o ToChars(text.decimal))

\* str::trim
trim(amount) ==
    LET inked == {i \in DOMAIN amount : amount[i] # " "}
    IN IF inked = {} THEN <<>>
       ELSE SubSeq(amount, CHOOSE i \in inked : \A j \in inked : i <= j,
                           CHOOSE i \in inked : \A j \in inked : i >= j)

RECURSIVE split(_)
\* amount.split('.').collect()
split(amount) ==
    LET dots == {i \in DOMAIN amount : amount[i] = "."}
    IN IF dots = {} THEN <<amount>>
       ELSE LET first == CHOOSE i \in dots : \A j \in dots : i <= j
            IN <<SubSeq(amount, 1, first - 1)>> \o split(SubSeq(amount, first + 1, Len(amount)))

\* the digit a character stands for in a radix up to 36, -1 for none
CharDigit(c) ==
    IF \E i \in DOMAIN DigitChars : DigitChars[i] = c
    THEN (CHOOSE i \in DOMAIN DigitChars : DigitChars[i] = c) - 1
    ELSE CASE c = "a" -> 10
           [] c = "x" -> 33
           [] OTHER -> -1

RECURSIVE from_str_radix(_, _, _)
\* Uint::from_str_radix: '_' is skipped, a character that is no digit of the
\* radix is an error, and so is a value above U256::MAX
from_str_radix(src, radix, value) ==
    IF src = <<>> THEN Ok(value)
    ELSE IF Head(src) = "_" THEN from_str_radix(Tail(src), radix, value)
    ELSE LET digit == CharDigit(Head(src))
         IN IF digit < 0 \/ digit >= radix THEN Err("InvalidDigit")
            ELSE IF value > (U256_MAX - digit) \div radix THEN Err("Overflow")
            ELSE from_str_radix(Tail(src), radix, value * radix + digit)

\* str::parse::<U256>: Uint::from_str reads a "0x" prefix as radix 16
parse_U256(src) ==
    IF Len(src) >= 2 /\ SubSeq(src, 1, 2) = <<"0", "x">>
    THEN from_str_radix(SubSeq(src, 3, Len(src)), 16, 0)
    ELSE from_str_radix(src, 10, 0)

\* U256 * U256: the product modulo 2^256, computed on half-words so that no
\* intermediate value leaves a 32-bit integer
wrapping_mul(a, b) ==
    LET half == 2^15
        a1 == a \div half
        a0 == a % half
        b1 == b \div half
        b0 == b % half
    IN (((a1 * b0 + a0 * b1) % half) * half + a0 * b0) % (U256_MAX + 1)

RECURSIVE wrapping_pow10(_)
\* U256::from(10).pow(U256::from(decimals)): the power modulo 2^256
wrapping_pow10(decimals) ==
    IF decimals = 0 THEN 1 ELSE wrapping_mul(wrapping_pow10(decimals - 1), 10)

\* a fraction that is truncated but never padded
TruncateOnly(fraction, decimals) ==
    IF Len(fraction) > decimals THEN SubSeq(fraction, 1, decimals) ELSE fraction

\* the fraction padded or truncated to `decimals` characters
PadOrTruncate(fraction, decimals) ==
    IF Len(fraction) > decimals THEN SubSeq(fraction, 1, decimals)
    ELSE fraction \o [i \in 1..(decimals - Len(fraction)) |-> "0"]

\* parse_units
parse_units(amount_text, decimals) ==
    LET amount == trim(amount_text)
        parts == split(amount)
        multiplier == wrapping_pow10(decimals)
    IN IF amount = <<>> THEN Err("Amount cannot be empty")
       ELSE IF Head(amount) = "-" THEN Err("Amount cannot be negative")
       ELSE IF Len(parts) = 1
       THEN LET value == parse_U256(parts[1])
            IN IF value.kind = "err" THEN Err("Invalid amount")
               ELSE Ok(wrapping_mul(value.value, multiplier))
       ELSE IF Len(parts) = 2
       THEN LET integer == parts[1]
                fraction == PadOrTruncate(parts[2], decimals)
                integer_value == IF integer = <<>> THEN Ok(0) ELSE parse_U256(integer)
                fraction_value == IF fraction = <<>> THEN Ok(0) ELSE parse_U256(fraction)
            IN IF integer_value.kind = "err" THEN Err("Invalid integer part")
               ELSE IF fraction_value.kind = "err" THEN Err("Invalid fraction part")
               ELSE Ok((wrapping_mul(integer_value.value, multiplier)
                         + fraction_value.value) % (U256_MAX + 1))
       ELSE Err("Invalid amount format")

\* BalanceService::get_token_metadata: the decimals the tokens report
TokenDecimals(token) ==
    CASE token = USDC_ADDRESS -> 6
      [] token = WBTC_ADDRESS -> 8
      [] OTHER -> 18

SwapParams(from_token, to_token, amount_in, slippage_tolerance) ==
    [from_token |-> from_token, to_token |-> to_token, amount_in |-> amount_in,
     slippage_tolerance |-> slippage_tolerance]

\* slippage tolerances in percent: 0, 0.5 (the default), 1 and 50
SlippageTolerances == {Dec(0, 0), Dec(5, 1), Dec(1, 0), Dec(50, 0)}

\* raw input amounts: one small, one above the Decimal mantissa
AmountsIn == {2000, DECIMAL_MAX + 1}

NoSim == [simulation_success |-> FALSE, simulation_error |-> None]

\* the activation of simulate_swap: its position, its parameters, what the
\* chain answered to the routing probes, and its locals
SwapIdle ==
    [pc |-> "idle",
     params |-> SwapParams("-", "-", 0, DecimalZERO),
     probes |-> NoProbes,
     v2 |-> NoV2Answer,
     v3_err |-> "-",
     probed |-> {},
     route |-> NoRoute,
     amount_out |-> 0,
     tx |-> NoTx,
     amount_out_min_u128 |-> 0,
     sim |-> NoSim,
     dry_run_failed |-> FALSE,
     gas_estimate |-> 0,
     gas_price |-> 0,
     impact_err |-> "-",
     spot_output |-> [kind |-> "unasked"],
     reference_amount |-> 0,
     reference_route |-> NoRoute,
     outcome |-> Err("-")]

\* the activation of get_price: its position, its arguments, what the chain
\* answered to the oracle read, and how each source ended; `queries` are the
\* contracts it has called besides the token itself, `sources` is how the
\* call of each source returned ("-" while it has not); `v3_calls` are the
\* quoter calls of the V3 scan in the order made, `v2` is what the chain
\* answered to the V2 reads; `overflow_checks` is whether the build checks
\* integer overflow
PriceIdle ==
    [pc |-> "idle", token |-> "-", quote_currency |-> "-", decimals |-> 0,
     overflow_checks |-> FALSE,
     round |-> [latest |-> "unread"], oracle_err |-> "-", v3_err |-> "-", v2_err |-> "-",
     v3_calls |-> <<>>,
     v2 |-> [pair |-> "unasked"],
     queries |-> {},
     sources |-> [shortcut |-> "-", oracle |-> "-", v3 |-> "-", v2 |-> "-"],
     outcome |-> Err("-")]

\* no conversion is being applied
UnitsIdle == [pc |-> "idle", value |-> 0, decimals |-> 0, amount |-> <<>>, parsed |-> Err("-")]

\* the activation of swap_tokens: its position, its input, the entries the
\* registry resolved, the parameters it called simulate_swap with (None
\* while it has not) and its result
ToolIdle ==
    [pc |-> "idle",
     from_token |-> <<>>, to_token |-> <<>>, amount |-> <<>>, slippage_tolerance |-> None,
     from_entry |-> None, to_entry |-> None,
     call |-> None,
     outcome |-> Err("-")]

Init ==
    /\ RegistryInit
    /\ swap = SwapIdle
    /\ price = PriceIdle
    /\ units = UnitsIdle
    /\ tool = ToolIdle

Spec == Init /\ [][Next]_vars

\* the lists a fetch returns where only the progress of the callers is at
\* stake: an empty one and one that adds a token
LiveLists == { <<>>, <<TokenListToken(1, "0x6B175474", SymDAI, "Dai Stablecoin", 18)>> }

\* the steps of caller t that wait for nothing but the scheduler, or for a
\* remote fetch to complete
Progress(t) ==
    \/ EnsureFreshCheck(t)
    \/ EnsureFreshRecheck(t)
    \/ EnsureFreshRefreshErr(t)
    \/ \E tokens \in LiveLists : EnsureFreshRefreshOk(t, tokens)
    \/ Lookup(t)
    \/ ForcedRefreshErr(t)
    \/ \E tokens \in LiveLists : ForcedRefreshOk(t, tokens)
    \/ Retry(t)

LiveNext ==
    \/ \E t \in Tasks : \E op \in Ops : \E arg \in ArgsOf(op) : Call(t, op, arg)
    \/ \E t \in Tasks : Progress(t)
    \/ \E t \in Tasks : EnsureFreshAcquire(t)
    \/ \E t \in Tasks : Return(t)
    \/ Tick

\* a runnable task is scheduled and a fetch completes (weak fairness); the
\* semaphore serves its waiters in order, so a waiter is not passed over for
\* ever (strong fairness of acquire)
Fairness ==
    \A t \in Tasks : WF_vars(Progress(t)) /\ SF_vars(EnsureFreshAcquire(t))

LiveSpec == Init /\ [][LiveNext]_vars /\ Fairness

(***************************************************************************)
(* SwapService::simulate_swap, one activation at a time:                   *)
(*   idle -> v3 -> [v2] -> min_out -> dry_run -> gas -> impact -> done     *)
(* The registry and the price service stay as constructed.                 *)
(***************************************************************************)
SwapInit ==
    /\ chain_id = ETHEREUM_MAINNET_CHAIN_ID
    /\ cache = with_options(chain_id)
    /\ permits = 1
    /\ now = 0
    /\ tasks = [t \in Tasks |-> IdleTask]
    /\ swap = SwapIdle
    /\ price = PriceIdle
    /\ units = UnitsIdle
    /\ tool = ToolIdle

\* simulate_swap is entered; get_token_metadata cannot fail; the chain
\* state the V3 probes will see is fixed
SwapCall(amount_in, slippage_tolerance, probes) ==
    /\ swap.pc = "idle"
    /\ swap' = [SwapIdle EXCEPT
                   !.pc = "v3",
                   !.params = SwapParams(DAI_ADDRESS, USDC_ADDRESS, amount_in,
                                         slippage_tolerance),
                   !.probes = probes]
    /\ UNCHANGED <<registryVars, price, units, tool>>

\* match self.try_v3_swap(&params).await: Ok(result) is the route, any
\* Err(_) goes on to V2
TryV3 ==
    /\ swap.pc = "v3"
    /\ LET r == try_v3_swap(swap.params, swap.probes)
           probed == V3Probed(swap.probes, 1)
       IN swap' = CASE r.kind = "ok" ->
                         [swap EXCEPT !.pc = "min_out", !.probed = probed,
                                      !.route = r.value.route,
                                      !.amount_out = r.value.amount_out,
                                      !.tx = r.value.tx]
                    [] r.kind = "err" ->
                         [swap EXCEPT !.pc = "v2", !.probed = probed, !.v3_err = r.err]
                    [] OTHER ->
                         [swap EXCEPT !.pc = "done", !.probed = probed, !.outcome = Panic]
    /\ UNCHANGED <<registryVars, price, units, tool>>

\* self.try_v2_swap(&params).await?
TryV2(answer) ==
    /\ swap.pc = "v2"
    /\ LET r == try_v2_swap(swap.params, answer)
       IN swap' = CASE r.kind = "ok" ->
                         [swap EXCEPT !.pc = "min_out", !.v2 = answer,
                                      !.route = r.value.route,
                                      !.amount_out = r.value.amount_out,
                                      !.tx = r.value.tx]
                    [] r.kind = "err" ->
                         [swap EXCEPT !.pc = "done", !.v2 = answer, !.outcome = Err(r.err)]
                    [] OTHER -> [swap EXCEPT !.pc = "done", !.v2 = answer, !.outcome = Panic]
    /\ UNCHANGED <<registryVars, price, units, tool>>

\* a simulate_swap that reports the quoted output as its minimum
MinOutNoSlippage ==
    /\ swap.pc = "min_out"
    /\ swap' = IF swap.amount_out > U128_MAX
               THEN [swap EXCEPT !.pc = "done", !.outcome = Err("NumericOverflow"),
                                 !.probes = NoProbes, !.v2 = NoV2Answer]
               ELSE [swap EXCEPT !.pc = "dry_run", !.amount_out_min_u128 = swap.amount_out,
                                 !.probes = NoProbes, !.v2 = NoV2Answer]
    /\ UNCHANGED <<registryVars, price, units, tool>>

\* the minimum output of simulate_swap itself; routing is over and the
\* answers to its probes are dropped
MinOut ==
    /\ swap.pc = "min_out"
    /\ LET m == IF swap.amount_out > U128_MAX THEN Err("NumericOverflow")
                ELSE min_out(swap.amount_out, swap.params.slippage_tolerance)
       IN swap' = CASE m.kind = "ok" ->
                         [swap EXCEPT !.pc = "dry_run", !.amount_out_min_u128 = m.value,
                                      !.probes = NoProbes, !.v2 = NoV2Answer]
                    [] m.kind = "err" ->
                         [swap EXCEPT !.pc = "done", !.outcome = Err(m.err),
                                      !.probes = NoProbes, !.v2 = NoV2Answer]
                    [] OTHER ->
                         [swap EXCEPT !.pc = "done", !.outcome = Panic,
                                      !.probes = NoProbes, !.v2 = NoV2Answer]
    /\ UNCHANGED <<registryVars, price, units, tool>>

\* the eth_call dry run of the built transaction
DryRun(answer) ==
    /\ swap.pc = "dry_run"
    /\ swap' = [swap EXCEPT !.pc = "gas",
                            !.dry_run_failed = ~answer.ok,
                            !.sim = dry_run_outcome(simulate_transaction(answer))]
    /\ UNCHANGED <<registryVars, price, units, tool>>

\* estimate_gas and get_gas_price, each with its default
Gas(estimate, gas_price) ==
    /\ swap.pc = "gas"
    /\ swap' = [swap EXCEPT !.pc = "impact",
                            !.gas_estimate = unwrap_or(estimate, DEFAULT_GAS_ESTIMATE),
                            !.gas_price = unwrap_or(gas_price, DEFAULT_GAS_PRICE)]
    /\ UNCHANGED <<registryVars, price, units, tool>>

\* calculate_price_impact(..).unwrap_or(Decimal::ZERO), the formatting and
\* the result
PriceImpact(answer) ==
    /\ swap.pc = "impact"
    /\ LET r == calculate_price_impact(swap.params, swap.amount_out, swap.route, answer)
           spot_output == IF swap.route.protocol = "V3" THEN get_v3_quote(answer)
                          ELSE get_v2_quote(answer)
           asked == [swap EXCEPT
                        !.spot_output = spot_output,
                        !.reference_amount = calculate_reference_amount(swap.params.amount_in),
                        !.reference_route = reference_quote_route(swap.params, swap.route,
                                                                  answer)]
       IN swap' =
            IF r.kind = "panic"
            THEN [asked EXCEPT !.pc = "done", !.outcome = Panic]
            ELSE [asked EXCEPT
                     !.pc = "done",
                     !.impact_err = IF r.kind = "err" THEN r.err ELSE "-",
                     !.outcome = Ok(
                        [simulation_success |-> swap.sim.simulation_success,
                         simulation_error |-> swap.sim.simulation_error,
                         amount_in |-> format_units(swap.params.amount_in,
                                                    TokenDecimals(swap.params.from_token)),
                         amount_out_expected |-> format_units(swap.amount_out,
                                                    TokenDecimals(swap.params.to_token)),
                         amount_out_minimum |-> format_units(swap.amount_out_min_u128,
                                                    TokenDecimals(swap.params.to_token)),
                         price_impact |-> IF r.kind = "ok" THEN r.value ELSE 0,
                         gas_estimate |-> swap.gas_estimate,
                         gas_price |-> swap.gas_price,
                         gas_cost |-> swap.gas_estimate * swap.gas_price,
                         route |-> swap.route,
                         transaction |-> swap.tx])]
    /\ UNCHANGED <<registryVars, price, units, tool>>

\* the caller takes the outcome
SwapReturn ==
    /\ swap.pc = "done"
    /\ swap' = SwapIdle
    /\ UNCHANGED <<registryVars, price, units, tool>>

SwapNext ==
    \/ /\ swap.pc = "idle"
       /\ \E amount_in \in AmountsIn : \E slippage_tolerance \in SlippageTolerances :
             \E probes \in ProbeSets : SwapCall(amount_in, slippage_tolerance, probes)
    \/ TryV3
    \/ /\ swap.pc = "v2"
       /\ \E answer \in V2Answers : TryV2(answer)
    \/ MinOut
    \/ /\ swap.pc = "dry_run"
       /\ \E answer \in CallAnswers : DryRun(answer)
    \/ /\ swap.pc = "gas"
       /\ \E estimate \in GasEstimates : \E gas_price \in GasPrices : Gas(estimate, gas_price)
    \/ /\ swap.pc = "impact"
       /\ \E answer \in SpotAnswers : PriceImpact(answer)
    \/ SwapReturn

SwapSpec == SwapInit /\ [][SwapNext]_vars

(***************************************************************************)
(* SwapService::calculate_reference_amount applied to bounded inputs:      *)
(*   idle -> reference -> referenced -> idle                               *)
(***************************************************************************)
\* how far around each threshold the inputs are drawn
RefWindow == 10

\* the input amounts: around zero, the example of 500, the floor (1000), ten
\* times the floor, the amount whose 0.1% is the floor, and the largest U256
ReferenceAmounts ==
    UNION { Max(0, c - RefWindow)..Min(U256_MAX, c + RefWindow) :
               c \in {0, 500, 1000, 10000, 1000000, U256_MAX} }

\* calculate_reference_amount is called with amount_in
ReferenceCall(amount_in) ==
    /\ swap.pc = "idle"
    /\ swap' = [SwapIdle EXCEPT !.pc = "reference", !.params.amount_in = amount_in]
    /\ UNCHANGED <<registryVars, price, units, tool>>

\* it computes the reference amount
ReferenceCompute ==
    /\ swap.pc = "reference"
    /\ swap' = [swap EXCEPT
                   !.pc = "referenced",
                   !.reference_amount = calculate_reference_amount(swap.params.amount_in)]
    /\ UNCHANGED <<registryVars, price, units, tool>>

\* the caller takes the reference amount
ReferenceReturn ==
    /\ swap.pc = "referenced"
    /\ swap' = SwapIdle
    /\ UNCHANGED <<registryVars, price, units, tool>>

ReferenceNext ==
    \/ /\ swap.pc = "idle"
       /\ \E amount_in \in ReferenceAmounts : ReferenceCall(amount_in)
    \/ ReferenceCompute
    \/ ReferenceReturn

ReferenceSpec == SwapInit /\ [][ReferenceNext]_vars

(***************************************************************************)
(* Price discovery (src/src/services/price.rs).                            *)
(***************************************************************************)
\* scaled stand-ins for u64::MAX and i128::MAX (see U128_MAX)
U64_MAX == 2^14 - 1

I128_MAX == 2^19 - 1

\* scaled stand-in for i64::MAX: below u64::MAX, and 10^4 fits u64 but not
\* i64, as 10^19 does
I64_MAX == 2^13 - 1

\* current_timestamp(): the wall clock, in seconds
CURRENT_TIMESTAMP == 10000

STALENESS_THRESHOLD == 3600

\* the decimals of the Chainlink USD feeds
FEED_DECIMALS == 8

\* get_chainlink_feeds: the tokens with a known feed
ChainlinkFeedTokens == {WETH_ADDRESS, WBTC_ADDRESS, USDC_ADDRESS}

PriceTokens == {WETH_ADDRESS, USDC_ADDRESS, WBTC_ADDRESS, DAI_ADDRESS}

QuoteCurrencies == {"USD", "ETH"}

\* the decimals a token reports through get_token_metadata: a u8 read from
\* the chain; 10^5 exceeds the scaled u64 and i64 as 10^20 exceeds the real
\* ones
MetadataDecimals == {0, 2, 5}

\* 10u64.pow(exp): the power when it fits u64; beyond it the build decides:
\* with overflow checks the thread panics, without them the product wraps
pow10_u64(exp, overflow_checks) ==
    IF Pow10(exp) <= U64_MAX THEN Ok(Pow10(exp))
    ELSE IF overflow_checks THEN Panic
    ELSE Ok(Pow10(exp) % (U64_MAX + 1))

\* 10i64.pow(exp): as pow10_u64, wrapping into the signed range
pow10_i64(exp, overflow_checks) ==
    IF Pow10(exp) <= I64_MAX THEN Ok(Pow10(exp))
    ELSE IF overflow_checks THEN Panic
    ELSE LET w == Pow10(exp) % (U64_MAX + 1)
         IN Ok(IF w > I64_MAX THEN w - (U64_MAX + 1) ELSE w)

\* what the feed answers: latestRoundData and decimals() fail or succeed,
\* and the round that latestRoundData returns
Round(latest, decimals, roundId, answeredInRound, updatedAt, answer) ==
    [latest |-> latest, decimals |-> decimals, roundId |-> roundId,
     answeredInRound |-> answeredInRound, updatedAt |-> updatedAt, answer |-> answer]

Rounds ==
    { Round("rpc_error", "ok", 0, 0, 0, 0), Round("ok", "rpc_error", 5, 5, CURRENT_TIMESTAMP, 150) }
    \cup { Round("ok", "ok", 5, answeredInRound, updatedAt, answer) :
              answeredInRound \in {4, 5},
              updatedAt \in { CURRENT_TIMESTAMP,
                              CURRENT_TIMESTAMP - STALENESS_THRESHOLD,
                              CURRENT_TIMESTAMP - STALENESS_THRESHOLD - 1,
                              CURRENT_TIMESTAMP + STALENESS_THRESHOLD + 1,
                              U64_MAX + 1 },
              answer \in {-1, 0, 150, DECIMAL_MAX + 1, I128_MAX + 1} }

RECURSIVE StripZeros(_, _)
\* n / 10^k as a Decimal: the quotient at the smallest scale that holds it
StripZeros(n, k) ==
    IF k > 0 /\ n % 10 = 0 THEN StripZeros(n \div 10, k - 1) ELSE Dec(n, k)

DecimalDivPow10(n, k) == IF n = 0 THEN DecimalZERO ELSE StripZeros(n, k)

\* Decimal::to_string: the mantissa with the point e digits from the right
DecimalToString(d) ==
    LET digits == ToDigits(d.m)
        padded == [i \in 1..Max(0, d.e + 1 - Len(digits)) |-> 0] \o digits
    IN DecimalText(SubSeq(padded, 1, Len(padded) - d.e),
                   SubSeq(padded, Len(padded) - d.e + 1, Len(padded)))

PriceInfo(token, price_text, quote_currency, source) ==
    [token |-> token, price |-> price_text, quote_currency |-> quote_currency,
     source |-> source]

\* "1".to_string()
TextOne == DecimalText(<<1>>, <<>>)

\* PriceService::get_chainlink_price
get_chainlink_price(token, round) ==
    IF round.latest = "rpc_error" \/ round.decimals = "rpc_error" THEN Err("Rpc")
    ELSE IF round.answeredInRound < round.roundId THEN Err("PriceOracle")
    ELSE IF round.updatedAt > U64_MAX THEN Err("NumericOverflow")
    ELSE IF CURRENT_TIMESTAMP > round.updatedAt
            /\ CURRENT_TIMESTAMP - round.updatedAt > STALENESS_THRESHOLD
    THEN Err("PriceOracle")
    ELSE IF round.answer <= 0 THEN Err("PriceOracle")
    ELSE IF round.answer > I128_MAX THEN Err("NumericOverflow")
    ELSE IF round.answer > DECIMAL_MAX THEN Panic
    ELSE Ok(PriceInfo(token, DecimalToString(DecimalDivPow10(round.answer, FEED_DECIMALS)),
                      "USD", "Chainlink"))

\* what the quoter answers for each fee tier to get_uniswap_v3_price
PriceQuotes == {QuoteErr, QuoteOk(150), QuoteOk(DECIMAL_MAX + 1), QuoteOk(U128_MAX + 1)}

PriceQuoteSets == [DOMAIN ALL_FEES -> PriceQuotes]

OutDecimals(token_out) == IF token_out = USDC_ADDRESS THEN 6 ELSE 18

RECURSIVE V3PriceLoop(_, _, _)
\* the loop of get_uniswap_v3_price: the first quote that succeeds decides
V3PriceLoop(quotes, i, token_out) ==
    IF i > Len(ALL_FEES) THEN Err("PoolNotFound")
    ELSE IF ~quotes[i].ok THEN V3PriceLoop(quotes, i + 1, token_out)
    ELSE IF quotes[i].amountOut > U128_MAX THEN Err("NumericOverflow")
    ELSE IF quotes[i].amountOut > DECIMAL_MAX THEN Panic
    ELSE Ok(DecimalDivPow10(quotes[i].amountOut, OutDecimals(token_out)))

RECURSIVE V3PriceCalls(_, _, _)
\* the quoteExactInputSingle calls that loop makes from index i on, in the
\* order it makes them: the fee tier, the amountIn and what the quoter
\* answered; no call follows one that succeeded
V3PriceCalls(quotes, i, amount_in) ==
    IF i > Len(ALL_FEES) THEN <<>>
    ELSE <<[fee |-> ALL_FEES[i], amountIn |-> amount_in, result |-> quotes[i]]>>
         \o (IF quotes[i].ok THEN <<>> ELSE V3PriceCalls(quotes, i + 1, amount_in))

\* PriceService::get_uniswap_v3_price; amountIn is
\* U256::from(10u64.pow(token_in_decimals as u32))
get_uniswap_v3_price(quotes, token_out, token_in_decimals, overflow_checks) ==
    IF pow10_u64(token_in_decimals, overflow_checks).kind # "ok" THEN Panic
    ELSE V3PriceLoop(quotes, 1, token_out)

\* the scale a Decimal can reach
MAX_PRECISION == 28

\* a reserve is a uint112: it always fits u128, not always a Decimal
Reserves == {0, 40, 1000, DECIMAL_MAX + 1}

\* what the chain answers to get_uniswap_v2_price: getPair, getReserves and
\* token0 fail or succeed; token0 is the input token or the other one
V2PriceAnswer(pair, reads, token0_is_in, reserve0, reserve1) ==
    [pair |-> pair, reads |-> reads, token0_is_in |-> token0_is_in,
     reserve0 |-> reserve0, reserve1 |-> reserve1]

V2PriceAnswers ==
    { V2PriceAnswer("rpc_error", "-", TRUE, 0, 0), V2PriceAnswer("zero", "-", TRUE, 0, 0),
      V2PriceAnswer("exists", "rpc_error", TRUE, 0, 0) }
    \cup { V2PriceAnswer("exists", "ok", t, r0, r1) :
              t \in BOOLEAN, r0 \in Reserves, r1 \in Reserves }

RECURSIVE DivLoop(_, _, _, _)
\* long division: digits are added while the mantissa and the scale have
\* room; the last digit is rounded
DivLoop(q, r, n, e) ==
    IF r = 0 THEN Dec(q, e)
    ELSE IF q * 10 + 9 > DECIMAL_MAX \/ e = MAX_PRECISION
    THEN Dec(IF 2 * r > n \/ (2 * r = n /\ q % 2 = 1) THEN q + 1 ELSE q, e)
    ELSE DivLoop(q * 10 + (r * 10) \div n, (r * 10) % n, n, e + 1)

\* Decimal / Decimal::from(n) for an integer n > 0
DecimalDivInt(a, n) == DivLoop(a.m \div n, a.m % n, n, a.e)

\* Decimal / Decimal::from(10^k): the scale grows by k, bounded by MAX_PRECISION
DecimalShift(a, k) ==
    IF a.m = 0 THEN DecimalZERO
    ELSE IF a.e + k <= MAX_PRECISION THEN StripZeros(a.m, a.e + k)
    ELSE Dec(RoundHalfEven(a.m, Pow10(a.e + k - MAX_PRECISION)), MAX_PRECISION)

\* PriceService::get_uniswap_v2_price; the decimals drawn keep a wrapped
\* 10i64.pow(token_in_decimals) positive
get_uniswap_v2_price(answer, token_out, token_in_decimals, overflow_checks) ==
    IF answer.pair = "rpc_error" THEN Err("Rpc")
    ELSE IF answer.pair = "zero" THEN Err("PoolNotFound")
    ELSE IF answer.reads = "rpc_error" THEN Err("Rpc")
    ELSE LET reserve_in == IF answer.token0_is_in THEN answer.reserve0 ELSE answer.reserve1
             reserve_out == IF answer.token0_is_in THEN answer.reserve1 ELSE answer.reserve0
         IN IF reserve_in > U128_MAX \/ reserve_out > U128_MAX THEN Err("NumericOverflow")
            ELSE IF reserve_in = 0 THEN Err("InsufficientLiquidity")
            ELSE IF reserve_out > DECIMAL_MAX \/ reserve_in > DECIMAL_MAX THEN Panic
            ELSE IF pow10_i64(token_in_decimals, overflow_checks).kind # "ok" THEN Panic
            ELSE LET scaled ==
                         DecimalMul(Dec(reserve_out, 0),
                                    Dec(pow10_i64(token_in_decimals, overflow_checks).value, 0))
                 IN IF scaled.kind # "ok" THEN Panic
                    ELSE Ok(DecimalShift(DecimalDivInt(scaled.value, reserve_in),
                                         OutDecimals(token_out)))

\* the token the AMM path quotes against
QuoteToken(quote_currency) == IF quote_currency = "ETH" THEN WETH_ADDRESS ELSE USDC_ADDRESS

\* a get_price that lets the oracle error through
after_oracle_propagates(r) == [pc |-> "done", outcome |-> r]

\* get_price after the oracle read: `if let Ok(price_info)` returns it, any
\* Err is dropped and the AMM path follows
after_oracle(r) ==
    IF r.kind = "err" THEN [pc |-> "v3", outcome |-> Err("-")]
    ELSE [pc |-> "done", outcome |-> r]

(***************************************************************************)
(* PriceService::get_price, one activation at a time:                      *)
(*   idle -> shortcuts -> [oracle] -> [v3 -> [v2]] -> done                 *)
(***************************************************************************)
PriceInit ==
    /\ chain_id = ETHEREUM_MAINNET_CHAIN_ID
    /\ cache = with_options(chain_id)
    /\ permits = 1
    /\ now = 0
    /\ tasks = [t \in Tasks |-> IdleTask]
    /\ swap = SwapIdle
    /\ price \in {[PriceIdle EXCEPT !.overflow_checks = b] : b \in BOOLEAN}
    /\ units = UnitsIdle
    /\ tool = ToolIdle

\* get_price is entered and reads the token metadata, which cannot fail
PriceCall(token, quote_currency, decimals) ==
    /\ price.pc = "idle"
    /\ price' = [PriceIdle EXCEPT !.pc = "shortcuts", !.token = token,
                                  !.quote_currency = quote_currency,
                                  !.decimals = decimals,
                                  !.overflow_checks = price.overflow_checks]
    /\ UNCHANGED <<registryVars, swap, units, tool>>

\* a get_price whose only special case is WETH priced in ETH
PriceShortcutsWethOnly ==
    /\ price.pc = "shortcuts"
    /\ price' =
         IF price.token = WETH_ADDRESS /\ price.quote_currency = "ETH"
         THEN [price EXCEPT !.pc = "done", !.sources.shortcut = "ok",
                            !.outcome = Ok(PriceInfo(price.token, TextOne, "ETH", "UniswapV3"))]
         ELSE IF price.quote_currency = "USD" /\ price.token \in ChainlinkFeedTokens
         THEN [price EXCEPT !.pc = "oracle"]
         ELSE [price EXCEPT !.pc = "v3"]
    /\ UNCHANGED <<registryVars, swap, units, tool>>

\* the two 1:1 special cases, then the choice of the first source
PriceShortcuts ==
    /\ price.pc = "shortcuts"
    /\ price' =
         IF price.token = WETH_ADDRESS /\ price.quote_currency = "ETH"
         THEN [price EXCEPT !.pc = "done", !.sources.shortcut = "ok",
                            !.outcome = Ok(PriceInfo(price.token, TextOne, "ETH", "UniswapV3"))]
         ELSE IF price.token = USDC_ADDRESS /\ price.quote_currency = "USD"
         THEN [price EXCEPT !.pc = "done", !.sources.shortcut = "ok",
                            !.outcome = Ok(PriceInfo(price.token, TextOne, "USD", "Chainlink"))]
         ELSE IF price.quote_currency = "USD" /\ price.token \in ChainlinkFeedTokens
         THEN [price EXCEPT !.pc = "oracle"]
         ELSE [price EXCEPT !.pc = "v3"]
    /\ UNCHANGED <<registryVars, swap, units, tool>>

\* the oracle read
PriceOracle(round) ==
    /\ price.pc = "oracle"
    /\ LET r == get_chainlink_price(price.token, round)
       IN price' = [price EXCEPT !.round = round,
                                 !.queries = @ \cup {"oracle"},
                                 !.sources.oracle = r.kind,
                                 !.oracle_err = IF r.kind = "err" THEN r.err ELSE "-",
                                 !.pc = after_oracle(r).pc,
                                 !.outcome = after_oracle(r).outcome]
    /\ UNCHANGED <<registryVars, swap, units, tool>>

\* get_uniswap_price: the V3 quoter
PriceV3(quotes) ==
    /\ price.pc = "v3"
    /\ LET r == get_uniswap_v3_price(quotes, QuoteToken(price.quote_currency),
                                     price.decimals, price.overflow_checks)
           amount_in == pow10_u64(price.decimals, price.overflow_checks)
           calls == IF amount_in.kind = "ok" THEN V3PriceCalls(quotes, 1, amount_in.value)
                    ELSE <<>>
           called == [price EXCEPT !.queries = IF calls = <<>> THEN @ ELSE @ \cup {"quoter"},
                                   !.v3_calls = calls,
                                   !.sources.v3 = r.kind]
       IN price' =
            CASE r.kind = "ok" ->
                   [called EXCEPT !.pc = "done",
                                  !.outcome = Ok(PriceInfo(price.token, DecimalToString(r.value),
                                                           price.quote_currency, "UniswapV3"))]
              [] r.kind = "err" -> [called EXCEPT !.pc = "v2", !.v3_err = r.err]
              [] OTHER -> [called EXCEPT !.pc = "done", !.outcome = Panic]
    /\ UNCHANGED <<registryVars, swap, units, tool>>

\* get_uniswap_price: the V2 pair, then PoolNotFound
PriceV2(answer) ==
    /\ price.pc = "v2"
    /\ LET r == get_uniswap_v2_price(answer, QuoteToken(price.quote_currency), price.decimals,
                                     price.overflow_checks)
           called == [price EXCEPT !.queries = @ \cup (IF answer.pair = "exists"
                                                         THEN {"factory", "pair"}
                                                         ELSE {"factory"}),
                                   !.v2 = answer,
                                   !.sources.v2 = r.kind]
       IN price' =
            CASE r.kind = "ok" ->
                   [called EXCEPT !.pc = "done",
                                  !.outcome = Ok(PriceInfo(price.token, DecimalToString(r.value),
                                                           price.quote_currency, "UniswapV2"))]
              [] r.kind = "err" ->
                   [called EXCEPT !.pc = "done", !.v2_err = r.err,
                                  !.outcome = Err("PoolNotFound")]
              [] OTHER -> [called EXCEPT !.pc = "done", !.outcome = Panic]
    /\ UNCHANGED <<registryVars, swap, units, tool>>

\* the caller takes the outcome
PriceReturn ==
    /\ price.pc = "done"
    /\ price' = [PriceIdle EXCEPT !.overflow_checks = price.overflow_checks]
    /\ UNCHANGED <<registryVars, swap, units, tool>>

PriceNext ==
    \/ /\ price.pc = "idle"
       /\ \E token \in PriceTokens : \E quote_currency \in QuoteCurrencies :
             \E decimals \in MetadataDecimals : PriceCall(token, quote_currency, decimals)
    \/ PriceShortcuts
    \/ /\ price.pc = "oracle"
       /\ \E round \in Rounds : PriceOracle(round)
    \/ /\ price.pc = "v3"
       /\ \E quotes \in PriceQuoteSets : PriceV3(quotes)
    \/ /\ price.pc = "v2"
       /\ \E answer \in V2PriceAnswers : PriceV2(answer)
    \/ PriceReturn

PriceSpec == PriceInit /\ [][PriceNext]_vars

(***************************************************************************)
(* format_units and parse_units applied to bounded inputs:                 *)
(*   idle -> formatted -> parsed -> idle     (the round trip)              *)
(*   idle -> parsed_text -> idle             (parse_units on any text)     *)
(***************************************************************************)
\* raw values 0..MaxSmallValue are formatted, and some near U256::MAX
MaxSmallValue == 300

\* decimals is a u8; scaled, it still exceeds the digits a value can have
MaxDecimals == 12

MaxTextLen == 4

FormatValues ==
    (0..MaxSmallValue) \cup {U256_MAX, U256_MAX - 1, 10^9, 10^9 + 50, 10^9 - 1, 123456789}

\* the characters of the texts parse_units is applied to
AmountChars == {"0", "1", "5", ".", "-", " ", "x", "_"}

AmountTexts == UNION { [1..n -> AmountChars] : n \in 0..MaxTextLen }

TextDecimals == {0, 1, 2, MaxDecimals}

UnitsInit ==
    /\ chain_id = ETHEREUM_MAINNET_CHAIN_ID
    /\ cache = with_options(chain_id)
    /\ permits = 1
    /\ now = 0
    /\ tasks = [t \in Tasks |-> IdleTask]
    /\ swap = SwapIdle
    /\ price = PriceIdle
    /\ units = UnitsIdle
    /\ tool = ToolIdle

\* format_units(value, decimals)
UnitsFormat(value, decimals) ==
    /\ units.pc = "idle"
    /\ units' = [UnitsIdle EXCEPT !.pc = "formatted", !.value = value, !.decimals = decimals,
                                  !.amount = to_string(format_units(value, decimals))]
    /\ UNCHANGED <<registryVars, swap, price, tool>>

\* parse_units on the text format_units returned, with the same decimals
UnitsParse ==
    /\ units.pc = "formatted"
    /\ units' = [units EXCEPT !.pc = "parsed",
                              !.parsed = parse_units(units.amount, units.decimals)]
    /\ UNCHANGED <<registryVars, swap, price, tool>>

\* parse_units(amount, decimals) on a text of any origin
UnitsParseText(amount, decimals) ==
    /\ units.pc = "idle"
    /\ units' = [UnitsIdle EXCEPT !.pc = "parsed_text", !.decimals = decimals,
                                  !.amount = amount,
                                  !.parsed = parse_units(amount, decimals)]
    /\ UNCHANGED <<registryVars, swap, price, tool>>

UnitsReturn ==
    /\ units.pc \in {"parsed", "parsed_text"}
    /\ units' = UnitsIdle
    /\ UNCHANGED <<registryVars, swap, price, tool>>

UnitsNext ==
    \/ /\ units.pc = "idle"
       /\ \E value \in FormatValues : \E decimals \in 0..MaxDecimals :
             UnitsFormat(value, decimals)
    \/ UnitsParse
    \/ /\ units.pc = "idle"
       /\ \E amount \in AmountTexts : \E decimals \in TextDecimals :
             UnitsParseText(amount, decimals)
    \/ UnitsReturn

UnitsSpec == UnitsInit /\ [][UnitsNext]_vars

(***************************************************************************)
(* EthereumTradingServer::swap_tokens (src/src/mcp/server.rs), one         *)
(* activation at a time:  idle -> resolve -> validate -> [simulate] -> done *)
(* The registry is at rest: a symbol resolves as the cache has it.         *)
(***************************************************************************)
\* Decimal::from_str on a short text: an optional '-', digits, at most one '.'
decimal_from_str(text) ==
    LET negative == text # <<>> /\ Head(text) = "-"
        body == IF negative THEN Tail(text) ELSE text
        parts == split(body)
        digits == IF Len(parts) = 2 THEN parts[1] \o parts[2] ELSE body
        value == from_str_radix(digits, 10, 0)
    IN IF digits = <<>> \/ Len(parts) > 2 \/ value.kind = "err" THEN Err("invalid decimal")
       ELSE Ok(Dec((IF negative THEN -1 ELSE 1) * value.value,
                   IF Len(parts) = 2 THEN Len(parts[2]) ELSE 0))

\* a < b on Decimals
DecimalLess(a, b) == DecimalSub(a, b).m < 0

\* a swap_tokens that lets a zero amount through
zero_amount_accepted(amount_in) == FALSE

\* `if amount_in == U256::ZERO`
zero_amount(amount_in) == amount_in = 0

\* the checks of swap_tokens on the resolved entries, in the order of the
\* code: Ok(params) or the invalid-params error
swap_tokens_checks(from_entry, to_entry, amount, slippage_text) ==
    IF from_entry.address = to_entry.address THEN Err("invalid_params")
    ELSE LET amount_in == parse_units(amount, from_entry.decimals)
             parsed == IF slippage_text.some THEN decimal_from_str(slippage_text.value)
                       ELSE Ok(Dec(5, 1))
         IN IF amount_in.kind = "err" THEN Err("invalid_params")
            ELSE IF zero_amount(amount_in.value) THEN Err("invalid_params")
            ELSE IF parsed.kind = "err" THEN Err("invalid_params")
            ELSE IF DecimalLess(parsed.value, DecimalZERO)
                    \/ DecimalLess(Dec(50, 0), parsed.value)
            THEN Err("invalid_params")
            ELSE Ok(SwapParams(from_entry.address, to_entry.address, amount_in.value,
                               parsed.value))

ToolSymbols == { <<"w", "e", "t", "h">>, SymWETH, SymUSDC, SymWBTC, SymDAI }

ToolAmounts ==
    { <<"0">>, <<"1">>, <<"1", ".", "5">>,
      <<"0", ".", "0", "0", "0", "0", "0", "0", "0", "0", "1">>,
      <<"-", "1">>, <<>>, <<"0", ".", "0">> }

SlippageTexts ==
    { None, Some(<<"0">>), Some(<<"0", ".", "5">>), Some(<<"5", "0">>),
      Some(<<"5", "0", ".", "1">>), Some(<<"-", "1">>), Some(<<"-", "0", ".", "1">>),
      Some(<<"a">>) }

\* what simulate_swap answers to swap_tokens
SimulateAnswers == { Ok("SwapSimulationResult"), Err("PoolNotFound"), Err("Rpc") }

ToolInit ==
    /\ chain_id \in {ETHEREUM_MAINNET_CHAIN_ID, OTHER_CHAIN_ID}
    /\ cache = with_options(chain_id)
    /\ permits = 1
    /\ now = 0
    /\ tasks = [t \in Tasks |-> IdleTask]
    /\ swap = SwapIdle
    /\ price = PriceIdle
    /\ units = UnitsIdle
    /\ tool = ToolIdle

\* swap_tokens is entered with its input
ToolCall(from_token, to_token, amount, slippage_tolerance) ==
    /\ tool.pc = "idle"
    /\ tool' = [ToolIdle EXCEPT !.pc = "resolve", !.from_token = from_token,
                                !.to_token = to_token, !.amount = amount,
                                !.slippage_tolerance = slippage_tolerance]
    /\ UNCHANGED <<registryVars, swap, price, units>>

\* the two resolve_symbol calls: an unknown symbol is an invalid-params error
ToolResolve ==
    /\ tool.pc = "resolve"
    /\ LET from_entry == CacheLookup(cache, chain_id, "resolve_symbol", tool.from_token)
           to_entry == CacheLookup(cache, chain_id, "resolve_symbol", tool.to_token)
       IN tool' =
            IF ~from_entry.some
            THEN [tool EXCEPT !.pc = "done", !.outcome = Err("invalid_params")]
            ELSE IF ~to_entry.some
            THEN [tool EXCEPT !.pc = "done", !.from_entry = from_entry,
                              !.outcome = Err("invalid_params")]
            ELSE [tool EXCEPT !.pc = "validate", !.from_entry = from_entry,
                              !.to_entry = to_entry]
    /\ UNCHANGED <<registryVars, swap, price, units>>

\* the checks, then the call of simulate_swap with the parameters built
ToolValidate ==
    /\ tool.pc = "validate"
    /\ LET params == swap_tokens_checks(tool.from_entry.value, tool.to_entry.value,
                                        tool.amount, tool.slippage_tolerance)
       IN tool' =
            IF params.kind = "err"
            THEN [tool EXCEPT !.pc = "done", !.outcome = params]
            ELSE [tool EXCEPT !.pc = "simulate", !.call = Some(params.value)]
    /\ UNCHANGED <<registryVars, swap, price, units>>

\* simulate_swap returns: its error becomes an internal error
ToolSimulate(answer) ==
    /\ tool.pc = "simulate"
    /\ tool' = [tool EXCEPT !.pc = "done",
                            !.outcome = IF answer.kind = "err" THEN Err("internal_error")
                                        ELSE answer]
    /\ UNCHANGED <<registryVars, swap, price, units>>

ToolReturn ==
    /\ tool.pc = "done"
    /\ tool' = ToolIdle
    /\ UNCHANGED <<registryVars, swap, price, units>>

ToolNext ==
    \/ /\ tool.pc = "idle"
       /\ \E from_token \in ToolSymbols : \E to_token \in ToolSymbols :
             \E amount \in ToolAmounts : \E slippage_tolerance \in SlippageTexts :
                ToolCall(from_token, to_token, amount, slippage_tolerance)
    \/ ToolResolve
    \/ ToolValidate
    \/ /\ tool.pc = "simulate"
       /\ \E answer \in SimulateAnswers : ToolSimulate(answer)
    \/ ToolReturn

ToolSpec == ToolInit /\ [][ToolNext]_vars

(***************************************************************************)
(* Claims about the token registry (checked under Spec).                   *)
(***************************************************************************)
IsLookupOp(op) == op \in {"resolve_symbol", "lookup_address"}

\* C1: at most one remote token-list fetch is in flight at any time, and
\* every fetch in flight is performed by the holder of the refresh permit.
C1_SingleFlightFetch ==
    /\ Cardinality(InFlight) <= 1
    /\ InFlight \subseteq GateHolders

\* C2: every entry of by_symbol is the entry of by_address under its
\* (chain_id, address), and every entry of by_address is the entry of
\* by_symbol under its (chain_id, uppercase symbol).
C2_IndexesAgree ==
    /\ \A k \in DOMAIN cache.by_symbol :
          LET e == cache.by_symbol[k]
          IN MapGet(cache.by_address, <<e.chain_id, e.address>>) = Some(e)
    /\ \A k \in DOMAIN cache.by_address :
          LET e == cache.by_address[k]
          IN MapGet(cache.by_symbol, <<e.chain_id, to_uppercase(e.symbol)>>) = Some(e)

\* C3: by_symbol and by_address hold the same number of entries in every
\* reachable state.
C3_SameEntryCount ==
    Cardinality(DOMAIN cache.by_symbol) = Cardinality(DOMAIN cache.by_address)

\* C4: a lookup runs ensure_fresh first (a staleness refresh is attempted,
\* or skipped because another caller refreshed, exactly when the cache was
\* seen stale), then looks up; a hit returns the entry with no forced
\* refresh; a miss starts exactly one forced refresh, retried once when it
\* succeeds, and returns None with no further fetch when the forced refresh
\* fails or the key is still absent.  The result is an Option, never an error.
C4_LookupOrder ==
    \A t \in Tasks :
        LET me == tasks[t]
        IN /\ me.forced <= 1
           /\ me.lookups <= 2
           /\ (me.pc \in {"lookup", "forced_fetch", "retry", "done"}) =>
                 /\ me.ef # "-"
                 /\ me.stale <=> (me.ef \in {"ok", "err", "skipped"})
           /\ (me.pc = "forced_fetch") => (me.forced = 1 /\ me.lookups = 1)
           /\ (me.pc = "retry") => (me.forced = 1 /\ me.lookups = 1 /\ me.forcedOk)
           /\ (me.pc = "done" /\ IsLookupOp(me.op)) =>
                 /\ (me.forced = 0) => (me.lookups = 1 /\ me.res.some)
                 /\ (me.forced = 1 /\ me.forcedOk) => me.lookups = 2
                 /\ (me.forced = 1 /\ ~me.forcedOk) => (me.lookups = 1 /\ me.res = None)
                 /\ me.res.some =>
                       /\ me.res.value.chain_id = chain_id
                       /\ (me.op = "resolve_symbol") =>
                             to_uppercase(me.res.value.symbol) = to_uppercase(me.arg)
                       /\ (me.op = "lookup_address") => me.res.value.address = me.arg

\* witness of C4: a call missed, forced one refresh that succeeded, retried
\* and still found nothing
C4_Witness ==
    \E t \in Tasks :
        /\ tasks[t].pc = "done"
        /\ tasks[t].op = "resolve_symbol"
        /\ tasks[t].stale
        /\ tasks[t].forced = 1
        /\ tasks[t].forcedOk
        /\ tasks[t].lookups = 2
        /\ tasks[t].res = None

\* no fetch has succeeded so far: only a successful refresh stamps last_updated
EveryFetchFailed == ~cache.last_updated.some

SeedWETH == TokenEntry(WETH_ADDRESS, SymWETH, "Wrapped Ether", 18, 1)

SeedUSDC == TokenEntry(USDC_ADDRESS, SymUSDC, "USD Coin", 6, 1)

\* C5: on a registry constructed for chain 1, while every remote fetch
\* fails, resolve_symbol of WETH and USDC in any letter case returns the
\* seeded entries (18 and 6 decimals), and lookup_address of the two
\* addresses returns the same entries.
C5_SeedResolvesOffline ==
    \A t \in Tasks :
        LET me == tasks[t]
        IN (chain_id = 1 /\ EveryFetchFailed /\ me.pc = "done") =>
              /\ (me.op = "resolve_symbol" /\ to_uppercase(me.arg) = SymWETH) =>
                    me.res = Some(SeedWETH)
              /\ (me.op = "resolve_symbol" /\ to_uppercase(me.arg) = SymUSDC) =>
                    me.res = Some(SeedUSDC)
              /\ (me.op = "lookup_address" /\ me.arg = WETH_ADDRESS) =>
                    me.res = Some(SeedWETH)
              /\ (me.op = "lookup_address" /\ me.arg = USDC_ADDRESS) =>
                    me.res = Some(SeedUSDC)

\* witness of C5: the staleness refresh failed and a lower-case "weth"
\* resolved to the seeded entry
C5_Witness ==
    \E t \in Tasks :
        /\ chain_id = 1
        /\ EveryFetchFailed
        /\ tasks[t].pc = "done"
        /\ tasks[t].op = "resolve_symbol"
        /\ tasks[t].arg = <<"w", "e", "t", "h">>
        /\ tasks[t].ef = "err"
        /\ tasks[t].res = Some(SeedWETH)

(***************************************************************************)
(* Claims about the swap router (checked under SwapSpec).                  *)
(***************************************************************************)
\* the fee tiers whose pool exists and whose quote succeeds with a
\* non-zero output, in the chain state the routing probes see
Qualifying ==
    {i \in DOMAIN ALL_FEES :
        /\ swap.probes[i].pool = "exists"
        /\ swap.probes[i].quote.ok
        /\ swap.probes[i].quote.amountOut > 0}

\* a route has been selected and handed to the rest of simulate_swap
RouteSelected == swap.pc = "min_out"

\* C6: whenever a V3 fee tier qualifies, the selected route is V3 with a
\* qualifying tier of the maximum quoted output and amount_out is that
\* output; a V2 route is selected only when no V3 tier qualifies.
C6_BestV3Tier ==
    RouteSelected =>
        /\ (Qualifying # {}) =>
              /\ swap.route.protocol = "V3"
              /\ swap.route.fee_tier.some
              /\ \E i \in Qualifying :
                    /\ ALL_FEES[i] = swap.route.fee_tier.value
                    /\ swap.probes[i].quote.amountOut = swap.amount_out
                    /\ \A j \in Qualifying :
                          swap.probes[j].quote.amountOut <= swap.amount_out
        /\ (swap.route.protocol = "V2") => (Qualifying = {})

\* floor(amount_out * (1 - s / 100)) for s = m / 10^e percent
FloorMinOut(amount_out, s) ==
    (amount_out * (100 * Pow10(s.e) - s.m)) \div (100 * Pow10(s.e))

\* the minimum output of simulate_swap has been computed
MinOutComputed == swap.pc \in {"dry_run", "gas", "impact"}

\* C7: for a quoted amount_out that fits u128 and a slippage tolerance s in
\* [0, 50], the raw amount_out_minimum is floor(amount_out * (1 - s/100))
\* and is at most the raw amount_out_expected.
C7_MinOutIsFloor ==
    MinOutComputed =>
        /\ swap.amount_out_min_u128 =
              FloorMinOut(swap.amount_out, swap.params.slippage_tolerance)
        /\ swap.amount_out_min_u128 <= swap.amount_out

C9_OverflowIsReported ==
    (swap.pc = "done" /\ (swap.v3_err = "NumericOverflow"
                          \/ swap.impact_err = "NumericOverflow")) =>
        (swap.outcome.kind = "err" /\ swap.outcome.err = "NumericOverflow")

(***************************************************************************)
(* Claims about price discovery (checked under PriceSpec).                 *)
(***************************************************************************)
\* the oracle was read and the read failed, or the round it returned fails
\* validation: answeredInRound < roundId, an updatedAt more than the
\* threshold in the past, or an answer that is not positive
OracleReadRejected ==
    /\ price.round.latest # "unread"
    /\ \/ price.round.latest = "rpc_error"
       \/ price.round.decimals = "rpc_error"
       \/ price.round.answeredInRound < price.round.roundId
       \/ CURRENT_TIMESTAMP - price.round.updatedAt > STALENESS_THRESHOLD
       \/ price.round.answer <= 0

\* C10: for a USD quote of a token with a known feed, when the oracle read
\* fails or the round fails validation, get_price goes on to the AMM path:
\* it does not end on the oracle, its result is never an oracle error and
\* the source of a returned price is never the oracle.
C10_OracleFailureIsSoft ==
    OracleReadRejected =>
        /\ price.quote_currency = "USD" /\ price.token \in ChainlinkFeedTokens
        /\ price.pc \in {"v3", "v2", "done"}
        /\ (price.pc = "done") =>
              /\ price.v3_err # "-" \/ price.outcome.kind # "err"
              /\ (price.outcome.kind = "err") => (price.outcome.err = "PoolNotFound")
              /\ (price.outcome.kind = "ok") =>
                    price.outcome.value.source \in {"UniswapV3", "UniswapV2"}

\* witness of C10: a round answered in an earlier round was read, and the
\* price came from a V2 pair
C10_Witness ==
    /\ price.pc = "done"
    /\ price.round.latest = "ok"
    /\ price.round.decimals = "ok"
    /\ price.round.answeredInRound < price.round.roundId
    /\ price.oracle_err = "PriceOracle"
    /\ price.outcome.kind = "ok"
    /\ price.outcome.value.source = "UniswapV2"

\* no source of this activation has returned a price
NoSourceYieldsPrice ==
    \A source \in DOMAIN price.sources : price.sources[source] # "ok"

\* C11: get_price returns an error exactly when no source (shortcut, oracle,
\* V3 quoter, V2 pair) yields a price, and that error is PoolNotFound
\* whatever each source failed with.
C11_ErrorIffNoSource ==
    (price.pc = "done") =>
        /\ (price.outcome.kind = "err") <=> NoSourceYieldsPrice
        /\ (price.outcome.kind = "err") => (price.outcome.err = "PoolNotFound")

\* get_price(WETH, ETH) or get_price(USDC, USD) is running or has ended
SelfReferentialCall ==
    /\ price.pc # "idle"
    /\ \/ price.token = WETH_ADDRESS /\ price.quote_currency = "ETH"
       \/ price.token = USDC_ADDRESS /\ price.quote_currency = "USD"

\* C12: get_price(WETH, ETH) and get_price(USDC, USD) return the price "1"
\* whatever the chain would answer, and call no oracle, quoter, factory or
\* pair: they never reach the oracle or the AMM path.
C12_ShortcutNeedsNoChain ==
    SelfReferentialCall =>
        /\ price.pc \in {"shortcuts", "done"}
        /\ price.queries = {}
        /\ (price.pc = "done") =>
              /\ price.outcome.kind = "ok"
              /\ price.outcome.value.price = TextOne
              /\ price.outcome.value.quote_currency = price.quote_currency

\* witness of C12: get_price(USDC, USD) has returned "1" without a query
C12_Witness ==
    /\ price.pc = "done"
    /\ price.token = USDC_ADDRESS
    /\ price.quote_currency = "USD"
    /\ price.sources.shortcut = "ok"
    /\ price.outcome.kind = "ok"
    /\ price.outcome.value.price = TextOne
    /\ price.queries = {}

(***************************************************************************)
(* Claims about the unit conversions (checked under UnitsSpec).            *)
(***************************************************************************)
\* C14: for every raw value x that fits U256 and every decimals d,
\* parse_units(format_units(x, d), d) succeeds and returns x.
C14_RoundTrip ==
    (units.pc = "parsed") => (units.parsed = Ok(units.value))

\* witness of C14: a value with more digits than decimals and a fraction
\* that is not zero has made the round trip
C14_Witness ==
    /\ units.pc = "parsed"
    /\ units.value = U256_MAX
    /\ units.decimals = 3
    /\ units.amount = <<"1", "0", "7", "3", "7", "4", "1", ".", "8", "2", "3">>
    /\ units.parsed = Ok(U256_MAX)

\* the text must be rejected: empty, a leading '-', more than one '.', or a
\* character that is neither a decimal digit nor '.'
Malformed(amount) ==
    \/ amount = <<>>
    \/ Head(amount) = "-"
    \/ Cardinality({i \in DOMAIN amount : amount[i] = "."}) > 1
    \/ \E i \in DOMAIN amount : CharDigit(amount[i]) \notin 0..9 /\ amount[i] # "."

\* C16: parse_units returns an error for every text that, once trimmed, is
\* malformed, whatever the decimals and wherever the offending character is.
C16_MalformedIsRejected ==
    (units.pc = "parsed_text" /\ Malformed(trim(units.amount))) =>
        (units.parsed.kind = "err")

(***************************************************************************)
(* Claims about swap_tokens (checked under ToolSpec).                      *)
(***************************************************************************)
\* the input of the running activation must be refused: both symbols
\* resolve to one address, or the amount parses to zero, or the slippage
\* tolerance parses to a value outside [0, 50]
MustBeRefused ==
    LET from_entry == CacheLookup(cache, chain_id, "resolve_symbol", tool.from_token)
        to_entry == CacheLookup(cache, chain_id, "resolve_symbol", tool.to_token)
        slippage == IF tool.slippage_tolerance.some
                    THEN decimal_from_str(tool.slippage_tolerance.value)
                    ELSE Ok(Dec(5, 1))
    IN /\ tool.pc # "idle"
       /\ \/ /\ from_entry.some /\ to_entry.some
             /\ from_entry.value.address = to_entry.value.address
          \/ /\ from_entry.some
             /\ parse_units(tool.amount, from_entry.value.decimals) = Ok(0)
          \/ /\ slippage.kind = "ok"
             /\ \/ slippage.value.m < 0
                \/ slippage.value.m > 50 * Pow10(slippage.value.e)

\* C13: an input that must be refused never reaches simulate_swap and ends
\* in the invalid-params error; simulate_swap is only ever called with
\* from_token # to_token, amount_in > 0 and 0 <= slippage_tolerance <= 50.
C13_RefusedBeforeTheRouter ==
    /\ MustBeRefused =>
          /\ tool.call = None
          /\ tool.pc # "simulate"
          /\ (tool.pc = "done") => (tool.outcome = Err("invalid_params"))
    /\ tool.call.some =>
          /\ tool.call.value.from_token # tool.call.value.to_token
          /\ tool.call.value.amount_in > 0
          /\ tool.call.value.slippage_tolerance.m >= 0
          /\ tool.call.value.slippage_tolerance.m
                <= 50 * Pow10(tool.call.value.slippage_tolerance.e)

\* witness of C13: WBTC -> USDC with an amount below the smallest unit of
\* WBTC, which parses to zero, has been refused without a call
C13_Witness ==
    /\ tool.pc = "done"
    /\ tool.from_token = SymWBTC
    /\ tool.to_token = SymUSDC
    /\ tool.amount = <<"0", ".", "0", "0", "0", "0", "0", "0", "0", "0", "1">>
    /\ tool.slippage_tolerance = None
    /\ tool.to_entry.some
    /\ tool.call = None
    /\ tool.outcome = Err("invalid_params")

(***************************************************************************)
(* Claims about the price impact (checked under SwapSpec).                 *)
(***************************************************************************)
\* the reference quote was asked for and was not obtained, or is zero
NoReferenceQuote == swap.spot_output.kind = "err" \/ swap.spot_output = Ok(0)

\* C15: in every result simulate_swap returns, price_impact is not negative
\* and is a whole number of 0.0001 (at most 4 decimal places); when the
\* reference quote is not obtained or is zero, simulate_swap still returns
\* its result, with price_impact 0.
C15_PriceImpactDegrades ==
    (swap.pc = "done") =>
        /\ (swap.outcome.kind = "ok") => (swap.outcome.value.price_impact \in Nat)
        /\ NoReferenceQuote =>
              /\ swap.outcome.kind = "ok"
              /\ swap.outcome.value.price_impact = 0

\* witness of C15: the reference quote failed after a route was found, and
\* the result came back with price impact 0
C15_Witness ==
    /\ swap.pc = "done"
    /\ swap.spot_output = Err("Rpc")
    /\ swap.impact_err = "Rpc"
    /\ swap.outcome.kind = "ok"
    /\ swap.outcome.value.price_impact = 0

(***************************************************************************)
(* Further claims about the token registry (checked under Spec).           *)
(***************************************************************************)
\* caller t fetched inside ensure_fresh, or is fetching
FetchedInEnsureFresh(t) == tasks[t].pc = "ef_fetch" \/ tasks[t].ef \in {"ok", "err"}

\* C17 as stated: a caller that saw the cache stale and waited at the gate
\* while another caller's fetch succeeded re-checks and skips the fetch, so
\* ensure_fresh fetches once for the whole group.
C17_OneFetchPerGroup ==
    \A t \in Tasks : tasks[t].refreshed.some => ~FetchedInEnsureFresh(t)

\* C17 amended: such a caller fetches again only if the cache had expired
\* again when it re-checked, that is if more than the TTL has passed since
\* the refresh it waited for.
C17_OneFetchWhileFresh ==
    \A t \in Tasks :
        (tasks[t].refreshed.some /\ FetchedInEnsureFresh(t)) =>
            (now - tasks[t].refreshed.value > CacheTtl)

\* witness of C17: two callers saw the cache stale, one fetched with
\* success while the other waited, and the other skipped the fetch
C17_Witness ==
    \E t \in Tasks : \E u \in Tasks \ {t} :
        /\ tasks[u].stale /\ tasks[u].ef = "ok"
        /\ tasks[t].stale /\ tasks[t].refreshed.some
        /\ tasks[t].ef = "skipped"

\* a refresh of caller t fails in this step
FailedRefreshStep(t) ==
    \/ tasks[t].pc = "ef_fetch" /\ tasks'[t].ef = "err"
    \/ tasks[t].pc = "forced_fetch" /\ tasks'[t].pc = "done"

\* C18: a refresh that fails leaves by_symbol, by_address and last_updated
\* as they were: a stale cache stays stale and every key resolves as before.
C18_FailedRefreshKeepsCache ==
    [][\A t \in Tasks : FailedRefreshStep(t) => (cache' = cache)]_vars

\* witness of C18: a refresh failed inside ensure_fresh, the cache is still
\* the seeded one and still stale
C18_Witness ==
    \E t \in Tasks :
        /\ chain_id = ETHEREUM_MAINNET_CHAIN_ID
        /\ tasks[t].ef = "err"
        /\ cache = with_options(chain_id)
        /\ is_expired(cache, CacheTtl, now)

\* C20: no step removes a key of by_symbol or by_address (an entry may be
\* overwritten), so the seeded tokens stay resolvable for ever.
C20_KeysAreNeverRemoved ==
    [][/\ DOMAIN cache.by_symbol \subseteq DOMAIN cache'.by_symbol
       /\ DOMAIN cache.by_address \subseteq DOMAIN cache'.by_address]_vars

\* witness of C20: a fetched list that names none of the seeded tokens has
\* been applied, and the seeded keys are all there
C20_Witness ==
    /\ chain_id = ETHEREUM_MAINNET_CHAIN_ID
    /\ cache.last_updated.some
    /\ DOMAIN with_options(chain_id).by_symbol \subseteq DOMAIN cache.by_symbol
    /\ DOMAIN with_options(chain_id).by_address \subseteq DOMAIN cache.by_address
    /\ DOMAIN cache.by_symbol # DOMAIN with_options(chain_id).by_symbol

\* C19 (checked under LiveSpec): when every fetch completes, every call of
\* the registry returns; the permit is held by exactly the callers between
\* acquire and the end of their refresh, so it is released on every path.
C19_EveryLookupReturns ==
    /\ [](permits + Cardinality(GateHolders) = 1)
    /\ \A t \in Tasks : (tasks[t].pc # "idle") ~> (tasks[t].pc = "done")

\* witness of C19: a caller waits at the gate while the holder's refresh has
\* not completed
C19_Witness ==
    \E t \in Tasks : \E u \in Tasks \ {t} :
        /\ tasks[t].pc = "ef_acquire"
        /\ tasks[u].pc = "ef_fetch"
        /\ permits = 0

(***************************************************************************)
(* Claims about the V3 and V2 route attempts (checked under SwapSpec).     *)
(***************************************************************************)
\* try_v3_swap has returned and the answers to its probes are still at hand
V3Attempted == swap.pc \in {"v2", "min_out"}

\* the fee tiers where an RPC call of the probe failed: the pool lookup, or
\* the quote of an existing pool
RpcFailedTiers ==
    {i \in DOMAIN ALL_FEES :
        \/ swap.probes[i].pool = "rpc_error"
        \/ swap.probes[i].pool = "exists" /\ ~swap.probes[i].quote.ok}

\* C21: an RPC failure while probing one V3 fee tier (pool lookup or quote)
\* is caught locally: all four tiers are still probed, and a tier with a
\* valid quote stays eligible, so that the qualifying tier of the maximum
\* output (here one whose amount fits every conversion) is the route.
C21_TierFailureIsLocal ==
    (V3Attempted /\ RpcFailedTiers # {}) =>
        /\ swap.probed = DOMAIN ALL_FEES
        /\ (/\ Qualifying # {}
            /\ \A i \in Qualifying : swap.probes[i].quote.amountOut <= DECIMAL_MAX) =>
              /\ swap.route.protocol = "V3"
              /\ \E i \in Qualifying :
                    /\ swap.route.fee_tier = Some(ALL_FEES[i])
                    /\ swap.amount_out = swap.probes[i].quote.amountOut
                    /\ \A j \in Qualifying :
                          swap.probes[j].quote.amountOut <= swap.amount_out

\* no fee tier has a pool: every getPool call returned the zero address
NoPoolAtAll == \A i \in DOMAIN ALL_FEES : swap.probes[i].pool = "zero"

\* every getPool call succeeded, at least one pool exists, and every
\* existing pool quotes a zero output
EveryPoolQuotesZero ==
    /\ \A i \in DOMAIN ALL_FEES : swap.probes[i].pool \in {"zero", "exists"}
    /\ \E i \in DOMAIN ALL_FEES : swap.probes[i].pool = "exists"
    /\ \A i \in DOMAIN ALL_FEES :
          swap.probes[i].pool = "exists" =>
              swap.probes[i].quote.ok /\ swap.probes[i].quote.amountOut = 0

\* C22: try_v3_swap fails with PoolNotFound when no fee tier has a pool, and
\* with InsufficientLiquidity when at least one pool exists and every
\* existing pool quotes zero output.
C22_V3FailureKinds ==
    V3Attempted =>
        /\ NoPoolAtAll => swap.v3_err = "PoolNotFound"
        /\ EveryPoolQuotesZero => swap.v3_err = "InsufficientLiquidity"

\* try_v2_swap has returned and the answers to its lookups are still at hand
V2Attempted == swap.v2.pair # "unasked" /\ swap.pc \in {"min_out", "done"}

\* the quote of the chosen V2 path succeeded with an amount that every
\* conversion of the route builder holds
V2QuoteUsable ==
    /\ swap.v2.amounts.ok
    /\ swap.v2.amounts.amountOut > 0
    /\ swap.v2.amounts.amountOut <= DECIMAL_MAX

V2QuoteZero == swap.v2.amounts.ok /\ swap.v2.amounts.amountOut = 0

DirectPath == <<swap.params.from_token, swap.params.to_token>>

PathViaWeth == <<swap.params.from_token, WETH_ADDRESS, swap.params.to_token>>

\* the V2 route over `path` was selected with the quoted output
V2RouteOver(path) ==
    /\ swap.pc = "min_out"
    /\ swap.route = SwapRoute("V2", [i \in DOMAIN path |-> DebugAddress(path[i])], None)
    /\ swap.amount_out = swap.v2.amounts.amountOut
    /\ swap.tx.to = "UNISWAP_V2_ROUTER"
    /\ swap.tx.path = path

V2FailedWith(e) == swap.pc = "done" /\ swap.outcome = Err(e)

C24_ReferenceFollowsRoute ==
    (swap.pc = "done" /\ swap.outcome.kind = "ok" /\ swap.spot_output.kind = "ok") =>
        /\ swap.reference_route = swap.outcome.value.route
        /\ (swap.outcome.value.route.protocol = "V2"
               /\ Len(swap.outcome.value.route.path) = 2) =>
              Len(swap.reference_route.path) # 3

\* the index in ALL_FEES of the fee tier of a selected V3 route
RouteTier == CHOOSE i \in DOMAIN ALL_FEES : swap.route.fee_tier = Some(ALL_FEES[i])

\* C30: in every result of simulate_swap, amount_out_minimum is the
\* formatted value of exactly the minimum output encoded in the returned
\* transaction, and amount_out_expected is the formatted quote from which
\* that transaction and the route were built.
C30_ResultMatchesTransaction ==
    /\ RouteSelected =>
          /\ IF swap.route.protocol = "V3"
             THEN swap.probes[RouteTier].quote = QuoteOk(swap.amount_out)
             ELSE swap.v2.amounts = QuoteOk(swap.amount_out)
          /\ Ok(swap.tx.amountOutMin) =
                min_out(swap.amount_out, swap.params.slippage_tolerance)
          /\ swap.tx.amountIn = swap.params.amount_in
          /\ Len(swap.route.path) = Len(swap.tx.path)
    /\ (swap.pc = "done" /\ swap.outcome.kind = "ok") =>
          LET result == swap.outcome.value
          IN /\ result.amount_out_minimum =
                   format_units(result.transaction.amountOutMin,
                                TokenDecimals(swap.params.to_token))
             /\ result.amount_out_expected =
                   format_units(swap.amount_out, TokenDecimals(swap.params.to_token))
             /\ Ok(result.transaction.amountOutMin) =
                   min_out(swap.amount_out, swap.params.slippage_tolerance)
             /\ result.transaction = swap.tx
             /\ result.route = swap.route

\* witness of C30: a result with a slippage tolerance of 50 percent, whose
\* transaction encodes a minimum below the quoted output
C30_Witness ==
    /\ swap.pc = "done"
    /\ swap.outcome.kind = "ok"
    /\ swap.params.slippage_tolerance = Dec(50, 0)
    /\ swap.outcome.value.transaction.amountOutMin < swap.amount_out
    /\ swap.outcome.value.amount_out_minimum =
          format_units(swap.outcome.value.transaction.amountOutMin,
                       TokenDecimals(swap.params.to_token))

(***************************************************************************)
(* Claims about the sources of get_price (checked under PriceSpec).        *)
(***************************************************************************)
\* get_uniswap_v3_price has returned, or panicked
V3PriceScanned == price.sources.v3 # "-"

\* C25: in the AMM price path the V3 fee tiers are probed in the order 100,
\* 500, 3000, 10000 with an input of exactly 10^decimals raw units; the price
\* returned is that of the first tier whose quote succeeds, no tier is
\* queried after a success, and the V2 pair is queried only after all four
\* V3 tiers have failed.
C25_V3PriceScan ==
    V3PriceScanned =>
        LET calls == price.v3_calls
        IN /\ Len(calls) <= Len(ALL_FEES)
           /\ \A k \in DOMAIN calls :
                 /\ calls[k].fee = ALL_FEES[k]
                 /\ calls[k].amountIn = Pow10(price.decimals)
                 /\ (k < Len(calls)) => ~calls[k].result.ok
           /\ (price.pc = "done" /\ price.outcome.kind = "ok"
                  /\ price.outcome.value.source = "UniswapV3") =>
                 /\ calls # <<>>
                 /\ calls[Len(calls)].result.ok
                 /\ price.outcome.value.price =
                       DecimalToString(DecimalDivPow10(
                           calls[Len(calls)].result.amountOut,
                           OutDecimals(QuoteToken(price.quote_currency))))
           /\ ("factory" \in price.queries) =>
                 /\ Len(calls) = Len(ALL_FEES)
                 /\ \A k \in DOMAIN calls : ~calls[k].result.ok

\* the oracle was read and the round passes every validation but, possibly,
\* the one of its age
RoundOtherwiseValid ==
    /\ price.round.latest = "ok"
    /\ price.round.decimals = "ok"
    /\ price.round.answeredInRound >= price.round.roundId
    /\ price.round.answer > 0
    /\ price.round.answer <= DECIMAL_MAX

\* C26: get_price returns an oracle-sourced price only if the round's
\* updatedAt differs from the current time by at most 3600 seconds, in
\* either direction: exactly 3600 s old is accepted, 3601 s old is rejected,
\* more than 3600 s after the current time is rejected.
C26_OracleFreshBothWays ==
    /\ (price.sources.oracle = "ok") =>
          /\ CURRENT_TIMESTAMP - price.round.updatedAt <= STALENESS_THRESHOLD
          /\ price.round.updatedAt - CURRENT_TIMESTAMP <= STALENESS_THRESHOLD
    /\ (RoundOtherwiseValid
          /\ price.round.updatedAt = CURRENT_TIMESTAMP - STALENESS_THRESHOLD) =>
          price.sources.oracle = "ok"

\* get_uniswap_v2_price has returned, or panicked
V2PriceRead == price.sources.v2 # "-"

\* the pair exists, its reads succeeded, and one of its reserves is zero
ZeroReserve ==
    /\ price.v2.pair = "exists"
    /\ price.v2.reads = "ok"
    /\ price.v2.reserve0 = 0 \/ price.v2.reserve1 = 0

\* C27: in the V2 price path a pair that exists but has a zero reserve on
\* either side is reported as InsufficientLiquidity and never as a price,
\* and a missing pair (zero address) is reported as PoolNotFound.
C27_V2ZeroReserve ==
    V2PriceRead =>
        /\ (price.v2.pair = "zero") =>
              price.sources.v2 = "err" /\ price.v2_err = "PoolNotFound"
        /\ ZeroReserve =>
              price.sources.v2 = "err" /\ price.v2_err = "InsufficientLiquidity"

(***************************************************************************)
(* Claims about the reference amount (checked under ReferenceSpec).        *)
(***************************************************************************)
Referenced == swap.pc = "referenced"

\* C28 as stated: for every amount_in > 0 the reference amount is at most
\* the ceiling of 10% of the input.
C28_AtMostTenPercent ==
    (Referenced /\ swap.params.amount_in > 0) =>
        swap.reference_amount <= (swap.params.amount_in + 9) \div 10

\* C28 amended: for every amount_in >= 10000 the reference amount is at most
\* 10% of the input (amount_in / 10); for 0 < amount_in < 10000 the floor
\* wins and the reference amount is min(1000, amount_in), which is above the
\* ceiling of 10% of the input for 2 <= amount_in <= 9990.
C28_TenPercentFromTenThousand ==
    Referenced =>
        /\ (swap.params.amount_in >= 10000) =>
              swap.reference_amount <= swap.params.amount_in \div 10
        /\ (swap.params.amount_in > 0 /\ swap.params.amount_in < 10000) =>
              /\ swap.reference_amount = Min(1000, swap.params.amount_in)
              /\ (swap.params.amount_in >= 2 /\ swap.params.amount_in <= 9990) =>
                    swap.reference_amount > (swap.params.amount_in + 9) \div 10

\* witness of C28: at amount_in = 10000 the floor of 1000 is exactly 10%
C28_Witness ==
    /\ Referenced
    /\ swap.params.amount_in = 10000
    /\ swap.reference_amount = 1000

\* C29: the reference amount never exceeds amount_in and is non-zero
\* whenever amount_in is non-zero; when 0.1% of the input is below the floor
\* of 1000 raw units it equals min(1000, amount_in), otherwise it equals
\* amount_in / 1000.
C29_ReferenceAmount ==
    Referenced =>
        /\ swap.reference_amount <= swap.params.amount_in
        /\ (swap.params.amount_in # 0) => (swap.reference_amount # 0)
        /\ swap.reference_amount =
              IF swap.params.amount_in < 1000 * 1000
              THEN Min(1000, swap.params.amount_in)
              ELSE swap.params.amount_in \div 1000

\* witness of C29: amount_in = 500 gives min(1000, 500) = 500
C29_Witness ==
    /\ Referenced
    /\ swap.params.amount_in = 500
    /\ swap.reference_amount = 500


====
